---- MODULE Spec2Model ----
(***************************************************************************)
(* F1 dashboard backend: the upstream client with its TTL cache            *)
(* (F1Service._make_request), the WebSocket registry (WebSocketManager),   *)
(* the polling loop (data_streaming_loop) and the live-timing aggregation  *)
(* (F1Service.get_live_timing_data), as one state machine.                 *)
(*                                                                         *)
(* The program runs on one asyncio event loop: a coroutine runs without    *)
(* interruption from one await that suspends to the next.  Each action     *)
(* below is one such uninterrupted stretch of code.                        *)
(*                                                                         *)
(* Time is counted in ticks.  The durations of the source are scaled to    *)
(* small tick counts that keep their order:                                *)
(*   request_delay (0.3 s) <= sleep(2) < cache_ttl (30 s) = sleep(30)      *)
(*   < default Retry-After (60 s) = sleep(60) < sleep(120)                 *)
(***************************************************************************)
EXTENDS Integers, Sequences, FiniteSets, TLC

VARIABLES
    now,                    \* datetime.now(), in ticks
    cache,                  \* F1Service.cache: cache key -> [data, timestamp]
    rate_limited_until,     \* F1Service.rate_limited_until
    consecutive_failures,   \* F1Service.consecutive_failures
    last_request_time,      \* F1Service.last_request_time
    sem,                    \* free permits of F1Service.request_semaphore
    calls,                  \* per task: the _make_request call it is running
    active_connections,     \* WebSocketManager.active_connections (a list)
    connection_data,        \* WebSocketManager.connection_data: websocket -> info
    handlers,               \* per websocket: where its websocket_endpoint stands
    bc,                     \* the broadcast in progress, and what it has done
    spc,                    \* where data_streaming_loop stands
    stage,                  \* which of its three fetches the loop is at
    swake,                  \* when the loop's current sleep ends
    agg,                    \* the get_live_timing_data call of the live-timing route
    endpoints,              \* per websocket: what websocket_endpoint sent in its
                            \* latest turn, and when its wait for a message times out
    shutdown,               \* how far shutdown_event has come
    unsubscribed            \* history: per websocket, the data types it has
                            \* unsubscribed from and not subscribed to since

svcVars == <<cache, rate_limited_until, consecutive_failures, last_request_time, sem>>
wsVars == <<active_connections, connection_data, handlers, bc>>
schedVars == <<spc, stage, swake>>
appVars == <<agg, endpoints, shutdown, unsubscribed>>
vars == <<now, cache, rate_limited_until, consecutive_failures, last_request_time,
          sem, calls, active_connections, connection_data, handlers, bc,
          spc, stage, swake, agg, endpoints, shutdown, unsubscribed>>

----------------------------------------------------------------------------
(* Bounds of the model *)

MaxTime == 3            \* the clock stops here
MaxLoopTime == 6        \* the clock stops here when the streaming loop runs
MaxFailures == 2        \* no further failing response once the counter is here
MaxRecords == 2         \* the longest list of records a varied source returns
FailureCap == 7         \* where the clock does not stop, the counter stops here

(* Constants of the program, in ticks *)

cache_ttl == 2              \* 30 s
request_delay == 1          \* 0.3 s
SemaphorePermits == 5
DefaultRetryAfter == 3      \* 60 s
FetchGap == 1               \* the loop's sleep(2) between fetches
CycleSleep == 2             \* the loop's sleep(30) between cycles
RateLimitedSleep == 3       \* the loop's sleep(60) when rate limited
FailureSleep == 4           \* the loop's sleep(120) after many failures
FailureThreshold == 5
IdleWindow == 2             \* 30 s: the timeout of the endpoint's wait for a message

----------------------------------------------------------------------------
(* Upstream client: F1Service._make_request *)

RouteTasks == {"r1", "r2"}          \* HTTP route handlers calling the service
Scheduler == "sched"                \* the task running data_streaming_loop
Tasks == RouteTasks \cup {Scheduler}

NoDate == -1
\* the (endpoint, params) pairs the route handlers ask for: one handler keeps
\* to one endpoint, the other asks for either
RouteRequests(t) ==
    IF t = "r1" THEN {<<"sessions", NoDate>>}
    ELSE {<<"sessions", NoDate>>, <<"position", NoDate>>}

\* json.dumps(params, sort_keys=True) is one text per parameter mapping, so the
\* key is the pair itself
CacheKey(endpoint, params) == <<endpoint, params>>

\* what upstream can answer for a key: a list of records naming the request
\* they answer, or the empty list
Versions == {"a"}
Payloads(k) == {<<>>} \cup {<<[of |-> k, ver |-> v]>> : v \in Versions}

\* the Retry-After header: absent, delay-seconds, or an HTTP-date
\* (`seconds` is the delay the header asks for, whichever its form)
NoHint == [form |-> "absent", seconds |-> 0]
HintSeconds == {1}
Hints == {NoHint} \cup {[form |-> f, seconds |-> n] : f \in {"seconds", "date"},
                                                    n \in HintSeconds}

Response(kind, status, body, data, retry) ==
    [kind |-> kind, status |-> status, body |-> body, data |-> data, retry |-> retry]

\* every outcome of session.get(url) and response.json()
Responses(k) ==
    {Response("http", 200, "json", d, NoHint) : d \in Payloads(k)}
    \cup {Response("http", 200, "invalid", <<>>, NoHint)}
    \cup {Response("http", 429, "none", <<>>, h) : h \in Hints}
    \cup {Response("http", 500, "none", <<>>, NoHint)}
    \cup {Response("timeout", 0, "none", <<>>, NoHint)}
    \cup {Response("error", 0, "none", <<>>, NoHint)}

\* response.headers.get('Retry-After', '60'): the header's text, '60' when absent
RetryAfterText(h) ==
    IF h.form = "absent" THEN [form |-> "seconds", seconds |-> DefaultRetryAfter] ELSE h

\* int(text) raises ValueError on a text that is no decimal integer (an HTTP-date)
IntParses(text) == text.form = "seconds"
IntOf(text) == text.seconds

Idle == [pc |-> "idle", key |-> <<"none", NoDate>>, wake |-> 0, result |-> <<>>,
         outcome |-> "none"]

\* faulty variant: an entry exactly cache_ttl old still counts as fresh
FreshInclusive(k) ==
    /\ k \in DOMAIN cache
    /\ now - cache[k].timestamp <= cache_ttl

Fresh(k) ==
    /\ k \in DOMAIN cache
    /\ now - cache[k].timestamp < cache_ttl

CachedOrEmpty(k) == IF k \in DOMAIN cache THEN cache[k].data ELSE <<>>

\* faulty variant: without the final `except Exception` clause
HandlerTimeoutOnly(r) ==
    CASE r.kind = "timeout" -> "timeout"
      [] r.kind = "error" -> "propagate"
      [] r.kind = "http" /\ r.status = 200 ->
            IF r.body = "json" THEN "success" ELSE "propagate"
      [] r.kind = "http" /\ r.status = 429 ->
            IF IntParses(RetryAfterText(r.retry)) THEN "rate_limited" ELSE "propagate"
      [] OTHER -> "status"

\* the branch of lines 86-138 that ends the call
Handler(r) ==
    CASE r.kind = "timeout" -> "timeout"
      [] r.kind = "error" -> "exception"
      [] r.kind = "http" /\ r.status = 200 ->
            IF r.body = "json" THEN "success" ELSE "exception"
      [] r.kind = "http" /\ r.status = 429 ->
            IF IntParses(RetryAfterText(r.retry)) THEN "rate_limited" ELSE "exception"
      [] OTHER -> "status"

\* faulty variant: a call goes on when no permit is left
EnterSemaphoreNoLimit(t, c) ==
    /\ sem' = sem - 1
    /\ IF now - last_request_time < request_delay
       THEN /\ calls' = [calls EXCEPT ![t] =
                   [c EXCEPT !.pc = "pace_sleep",
                             !.wake = last_request_time + request_delay]]
            /\ UNCHANGED last_request_time
       ELSE /\ calls' = [calls EXCEPT ![t] = [c EXCEPT !.pc = "inflight", !.wake = 0]]
            /\ last_request_time' = now

\* lines 74-87: take a permit, pace, send the request
EnterSemaphore(t, c) ==
    IF sem > 0
    THEN /\ sem' = sem - 1
         /\ IF now - last_request_time < request_delay
            THEN /\ calls' = [calls EXCEPT ![t] =
                        [c EXCEPT !.pc = "pace_sleep",
                                  !.wake = last_request_time + request_delay]]
                 /\ UNCHANGED last_request_time
            ELSE /\ calls' = [calls EXCEPT ![t] = [c EXCEPT !.pc = "inflight", !.wake = 0]]
                 /\ last_request_time' = now
    ELSE /\ calls' = [calls EXCEPT ![t] = [c EXCEPT !.pc = "sem_wait", !.wake = 0]]
         /\ UNCHANGED <<sem, last_request_time>>

\* faulty variant: the rate-limit wait comes before the cache lookup
BeginFetchRateLimitFirst(t, k) ==
    LET c == [Idle EXCEPT !.key = k] IN
    IF rate_limited_until > now
    THEN /\ calls' = [calls EXCEPT ![t] =
                [c EXCEPT !.pc = "rl_sleep", !.wake = rate_limited_until]]
         /\ UNCHANGED <<sem, last_request_time>>
    ELSE IF Fresh(k)
    THEN /\ calls' = [calls EXCEPT ![t] =
                [c EXCEPT !.pc = "done", !.result = cache[k].data, !.outcome = "cached"]]
         /\ UNCHANGED <<sem, last_request_time>>
    ELSE EnterSemaphore(t, c)

\* lines 61-87, up to the first await that suspends
BeginFetch(t, k) ==
    LET c == [Idle EXCEPT !.key = k] IN
    IF Fresh(k)
    THEN /\ calls' = [calls EXCEPT ![t] =
                [c EXCEPT !.pc = "done", !.result = cache[k].data, !.outcome = "cached"]]
         /\ UNCHANGED <<sem, last_request_time>>
    ELSE IF rate_limited_until > now
    THEN /\ calls' = [calls EXCEPT ![t] =
                [c EXCEPT !.pc = "rl_sleep", !.wake = rate_limited_until]]
         /\ UNCHANGED <<sem, last_request_time>>
    ELSE EnterSemaphore(t, c)

\* a call starts; "done" keeps the previous call's result until the next one
Call(t, k) ==
    /\ calls[t].pc \in {"idle", "done"}
    /\ BeginFetch(t, k)
    /\ UNCHANGED <<now, cache, rate_limited_until, consecutive_failures>>

\* the event loop resumes the call where it waits before line 77: the sleep of
\* _wait_for_rate_limit is over, or a permit of the semaphore became free
Resume(t) ==
    /\ calls[t].pc \in {"rl_sleep", "sem_wait"}
    /\ calls[t].pc = "rl_sleep" => now >= calls[t].wake
    /\ calls[t].pc = "sem_wait" => sem > 0
    /\ EnterSemaphore(t, calls[t])
    /\ UNCHANGED <<now, cache, rate_limited_until, consecutive_failures>>

\* the pacing sleep of line 80 is over: lines 82-87
WakePace(t) ==
    /\ calls[t].pc = "pace_sleep"
    /\ now >= calls[t].wake
    /\ last_request_time' = now
    /\ calls' = [calls EXCEPT ![t] = [@ EXCEPT !.pc = "inflight", !.wake = 0]]
    /\ UNCHANGED <<now, cache, rate_limited_until, consecutive_failures, sem>>

\* consecutive_failures += 1.  The program only ever compares the counter with
\* FailureThreshold, so a count above FailureCap is kept as FailureCap.
CountFailure(n) == IF n < FailureCap THEN n + 1 ELSE n

Finish(t, outcome, result) ==
    calls' = [calls EXCEPT ![t] =
                [@ EXCEPT !.pc = "done", !.outcome = outcome, !.result = result]]

\* faulty variant: a success overwrites the data of an entry and keeps its timestamp
OnSuccessKeepsTimestamp(t, k, r) ==
    /\ cache' = [x \in DOMAIN cache \cup {k} |->
                   IF x = k
                   THEN [data |-> r.data,
                         timestamp |-> IF k \in DOMAIN cache THEN cache[k].timestamp
                                       ELSE now]
                   ELSE cache[x]]
    /\ consecutive_failures' = 0
    /\ Finish(t, "success", r.data)
    /\ UNCHANGED rate_limited_until

\* faulty variant: a success leaves the count of failures as it is
OnSuccessKeepsFailures(t, k, r) ==
    /\ cache' = [x \in DOMAIN cache \cup {k} |->
                   IF x = k THEN [data |-> r.data, timestamp |-> now] ELSE cache[x]]
    /\ Finish(t, "success", r.data)
    /\ UNCHANGED <<rate_limited_until, consecutive_failures>>

\* lines 88-100: status 200 and a body that parses
OnSuccess(t, k, r) ==
    /\ cache' = [x \in DOMAIN cache \cup {k} |->
                   IF x = k THEN [data |-> r.data, timestamp |-> now] ELSE cache[x]]
    /\ consecutive_failures' = 0
    /\ Finish(t, "success", r.data)
    /\ UNCHANGED rate_limited_until

\* faulty variant: a 429 drops the entry it falls back to
OnRateLimitedEvicts(t, k, r) ==
    /\ rate_limited_until' = now + IntOf(RetryAfterText(r.retry))
    /\ consecutive_failures' = CountFailure(consecutive_failures)
    /\ Finish(t, "rate_limited", CachedOrEmpty(k))
    /\ cache' = [x \in DOMAIN cache \ {k} |-> cache[x]]

\* lines 102-114: status 429 and a Retry-After that int() takes
OnRateLimited(t, k, r) ==
    /\ rate_limited_until' = now + IntOf(RetryAfterText(r.retry))
    /\ consecutive_failures' = CountFailure(consecutive_failures)
    /\ Finish(t, "rate_limited", CachedOrEmpty(k))
    /\ UNCHANGED cache

\* faulty variant: a failure stores 1 instead of adding 1 (an update is lost)
OnFailureLosesCount(t, k, h) ==
    /\ consecutive_failures' = 1
    /\ Finish(t, h, CachedOrEmpty(k))
    /\ UNCHANGED <<cache, rate_limited_until>>

\* lines 116-123, 125-131 and 132-138: another status, a timeout, any other
\* exception (h names which)
OnFailure(t, k, h) ==
    /\ consecutive_failures' = CountFailure(consecutive_failures)
    /\ Finish(t, h, CachedOrEmpty(k))
    /\ UNCHANGED <<cache, rate_limited_until>>

\* lines 86-138: the request ends with response r
Respond(t, r) ==
    /\ calls[t].pc = "inflight"
    /\ r \in Responses(calls[t].key)
    /\ LET k == calls[t].key
           h == Handler(r)
       IN  CASE h = "success" -> OnSuccess(t, k, r)
             [] h = "rate_limited" -> OnRateLimited(t, k, r)
             [] h \in {"status", "timeout", "exception"} -> OnFailure(t, k, h)
             [] OTHER ->
                   \* no except clause takes the exception: it leaves _make_request
                   /\ Finish(t, "raised", <<>>)
                   /\ UNCHANGED <<cache, rate_limited_until, consecutive_failures>>
    /\ sem' = sem + 1
    /\ UNCHANGED <<now, last_request_time>>

\* a response the bounded counter leaves room for
WithinMaxFailures(r) ==
    Handler(r) \in {"rate_limited", "status", "timeout", "exception"} =>
        consecutive_failures < MaxFailures

\* the clock advances, up to `limit`
TickTo(limit) ==
    /\ now < limit
    /\ now' = now + 1
    /\ UNCHANGED <<svcVars, calls, wsVars, schedVars, appVars>>

Tick == TickTo(MaxTime)

----------------------------------------------------------------------------
(* Broadcast manager: WebSocketManager *)

Conns == {"c1", "c2", "c3"}
Topics == {"POSITION", "INTERVAL"}

RECURSIVE RemoveFirst(_, _)
\* list.remove(x): the list without the first x
RemoveFirst(list, x) ==
    IF list = <<>> THEN <<>>
    ELSE IF Head(list) = x THEN Tail(list)
    ELSE <<Head(list)>> \o RemoveFirst(Tail(list), x)

Elements(list) == {list[i] : i \in DOMAIN list}

\* lines 18-25; the websocket's endpoint is from here on in its receive loop
connect(c) ==
    /\ handlers[c] = "new"
    /\ handlers' = [handlers EXCEPT ![c] = "open"]
    /\ active_connections' = Append(active_connections, c)
    /\ connection_data' = [x \in DOMAIN connection_data \cup {c} |->
                             IF x = c THEN [subscriptions |-> {}]
                             ELSE connection_data[x]]

\* faulty variant: disconnect takes the websocket out of the list only
disconnectKeepsData(c) ==
    /\ active_connections' =
            IF c \in Elements(active_connections)
            THEN RemoveFirst(active_connections, c) ELSE active_connections
    /\ UNCHANGED connection_data

\* lines 28-33, as an effect on the registry
disconnect(c) ==
    /\ active_connections' =
            IF c \in Elements(active_connections)
            THEN RemoveFirst(active_connections, c) ELSE active_connections
    /\ connection_data' = [x \in DOMAIN connection_data \ {c} |-> connection_data[x]]

\* websocket_endpoint has sent nothing, waits for nothing and has not ended
NoEndpoint == [sent |-> "none", deadline |-> 0, exit |-> "none"]

\* shutdown_event has not been called
NoShutdown == [pc |-> "off", copy |-> <<>>, closed |-> {}, raised |-> {}]

NoBroadcast == [state |-> "idle", type |-> "none", data |-> <<>>, timestamp |-> 0,
                topic |-> "none", targets |-> {}, pending |-> {}, delivered |-> {},
                raised |-> {}, error |-> "none"]

\* lines 55-64 and 76-87 up to gather: a _send_safe per websocket of `to`
StartSends(type, data, to) ==
    bc' = [NoBroadcast EXCEPT !.state = "sending", !.type = type, !.data = data,
                              !.timestamp = now, !.targets = to, !.pending = to]

\* broadcast(message), lines 53-64, when somebody is registered
BroadcastBegin(type, data) ==
    /\ active_connections # <<>>
    /\ StartSends(type, data, Elements(active_connections))

\* faulty variant: an empty subscription list does not mean every data type
SubscribedExplicitOnly(data_type) ==
    {c \in Elements(active_connections) :
        LET subscriptions == IF c \in DOMAIN connection_data
                             THEN connection_data[c].subscriptions ELSE {}
        IN  data_type \in subscriptions}

\* lines 79-85: the websockets a filtered broadcast of data_type sends to
Subscribed(data_type) ==
    {c \in Elements(active_connections) :
        LET subscriptions == IF c \in DOMAIN connection_data
                             THEN connection_data[c].subscriptions ELSE {}
        IN  data_type \in subscriptions \/ subscriptions = {}}

\* broadcast_to_subscribed(message, data_type), lines 74-87, when somebody is
\* registered
BroadcastToSubscribedBegin(type, data, data_type) ==
    /\ active_connections # <<>>
    /\ bc' = [NoBroadcast EXCEPT !.state = "sending", !.type = type, !.data = data,
                                 !.timestamp = now, !.topic = data_type,
                                 !.targets = Subscribed(data_type),
                                 !.pending = Subscribed(data_type)]

\* faulty variant: subscribing replaces the list instead of adding to it
update_subscriptionReplaces(c, data_types, action) ==
    /\ connection_data' =
            IF c \notin DOMAIN connection_data THEN connection_data
            ELSE [connection_data EXCEPT ![c].subscriptions =
                    CASE action = "subscribe" -> data_types
                      [] action = "unsubscribe" -> @ \ data_types
                      [] OTHER -> @]
    /\ UNCHANGED active_connections

\* update_subscription(websocket, data_types, action), lines 97-111; it has no
\* await, so it runs in one piece
update_subscription(c, data_types, action) ==
    /\ connection_data' =
            IF c \notin DOMAIN connection_data THEN connection_data
            ELSE [connection_data EXCEPT ![c].subscriptions =
                    CASE action = "subscribe" -> @ \cup data_types
                      [] action = "unsubscribe" -> @ \ data_types
                      [] OTHER -> @]
    /\ UNCHANGED active_connections

\* _send_safe, lines 68-69: send_text returned
SendOk(c) ==
    /\ bc.state = "sending"
    /\ c \in bc.pending
    /\ bc' = [bc EXCEPT !.pending = @ \ {c}, !.delivered = @ \cup {c}]
    /\ UNCHANGED <<active_connections, connection_data>>

\* faulty variant: a send that raised leaves the websocket registered
SendFailKeepsRegistered(c) ==
    /\ bc.state = "sending"
    /\ c \in bc.pending
    /\ bc' = [bc EXCEPT !.pending = @ \ {c}, !.raised = @ \cup {c}]
    /\ UNCHANGED <<active_connections, connection_data>>

\* _send_safe, lines 70-72: send_text raised
SendFail(c) ==
    /\ bc.state = "sending"
    /\ c \in bc.pending
    /\ bc' = [bc EXCEPT !.pending = @ \ {c}, !.raised = @ \cup {c}]
    /\ disconnect(c)

\* gather returned: every _send_safe has ended
BroadcastEnd ==
    /\ bc.state = "sending"
    /\ bc.pending = {}
    /\ bc' = [bc EXCEPT !.state = "returned"]

\* websocket_endpoint, lines 203-212: the client went away, the handler ends
HandlerExit(c) ==
    /\ handlers[c] = "open"
    /\ handlers' = [handlers EXCEPT ![c] = "ended"]
    /\ disconnect(c)

----------------------------------------------------------------------------
(* The websocket endpoint: websocket_endpoint, one task per websocket *)

\* what a client can make receive_text() return or raise: a text message
\* (of a handled type, or one json.loads rejects), or its disconnect
ClientEvents == {"SUBSCRIBE", "PING", "INVALID", "DISCONNECT"}

\* the endpoint leaves its try block: `finally` runs disconnect
EndpointEnds(c, why) ==
    /\ handlers' = [handlers EXCEPT ![c] = "ended"]
    /\ endpoints' = [endpoints EXCEPT ![c] = [NoEndpoint EXCEPT !.exit = why]]
    /\ disconnect(c)

\* the endpoint arms wait_for(receive_text(), timeout=30.0), after sending `sent`
\* or nothing
EndpointWaits(c, sent) ==
    /\ handlers' = [handlers EXCEPT ![c] = "open"]
    /\ endpoints' = [endpoints EXCEPT ![c] =
                        [@ EXCEPT !.sent = sent, !.deadline = now + IdleWindow]]
    /\ UNCHANGED <<active_connections, connection_data>>

\* main.py 155 and websocket_handler.py 18-26: accept() returns and the
\* websocket is registered, or accept() raises and the endpoint ends before
\* its try block
EndpointConnect(c, accepted) ==
    /\ handlers[c] = "new"
    /\ IF accepted
       THEN /\ handlers' = [handlers EXCEPT ![c] = "initial"]
            /\ active_connections' = Append(active_connections, c)
            /\ connection_data' = [x \in DOMAIN connection_data \cup {c} |->
                                     IF x = c THEN [subscriptions |-> {}]
                                     ELSE connection_data[x]]
            /\ UNCHANGED endpoints
       ELSE /\ handlers' = [handlers EXCEPT ![c] = "ended"]
            /\ endpoints' = [endpoints EXCEPT ![c] =
                                [NoEndpoint EXCEPT !.exit = "accept failed"]]
            /\ UNCHANGED <<active_connections, connection_data>>

\* faulty variant: a failing initial send ends the endpoint without disconnect
EndpointHelloNoFinally(c, session, sent_ok) ==
    /\ handlers[c] = "initial"
    /\ IF sent_ok
       THEN EndpointWaits(c, IF session THEN "SESSION_INFO" ELSE "NO_SESSION")
       ELSE /\ handlers' = [handlers EXCEPT ![c] = "ended"]
            /\ endpoints' = [endpoints EXCEPT ![c] =
                                [NoEndpoint EXCEPT !.exit = "send failed"]]
            /\ UNCHANGED <<active_connections, connection_data>>

\* main.py 157-182: the session lookup returned a session or none, and the
\* send of SESSION_INFO or NO_SESSION returned or raised
EndpointHello(c, session, sent_ok) ==
    /\ handlers[c] = "initial"
    /\ IF sent_ok
       THEN EndpointWaits(c, IF session THEN "SESSION_INFO" ELSE "NO_SESSION")
       ELSE EndpointEnds(c, "send failed")

\* main.py 182-196 and 203-207: before the timeout receive_text() returned the
\* message m or raised WebSocketDisconnect.  SUBSCRIBE and UNSUBSCRIBE are
\* logged, PING is answered with PONG; json.loads or the send of PONG may
\* raise; what is raised ends the loop
EndpointReceive(c, m, sent_ok) ==
    /\ handlers[c] = "open"
    /\ CASE m = "DISCONNECT" -> EndpointEnds(c, "disconnected")
         [] m = "INVALID" -> EndpointEnds(c, "message error")
         [] m = "PING" ->
               IF sent_ok THEN EndpointWaits(c, "PONG") ELSE EndpointEnds(c, "send failed")
         [] OTHER -> EndpointWaits(c, "none")

\* faulty variant: the loop ends after the heartbeat
EndpointTimeoutCloses(c, sent_ok) ==
    /\ handlers[c] = "open"
    /\ now >= endpoints[c].deadline
    /\ EndpointEnds(c, IF sent_ok THEN "none" ELSE "send failed")

\* main.py 197-202: no message came within the timeout; the send of HEARTBEAT
\* returned, or it raised inside the except clause and left the try block
EndpointTimeout(c, sent_ok) ==
    /\ handlers[c] = "open"
    /\ now >= endpoints[c].deadline
    /\ IF sent_ok THEN EndpointWaits(c, "HEARTBEAT") ELSE EndpointEnds(c, "send failed")

----------------------------------------------------------------------------
(* Streaming scheduler: data_streaming_loop *)

SchedConns == {"c1", "c2"}

SessionsKey == CacheKey("sessions", NoDate)

StageEndpoint(s) == CASE s = 1 -> "position" [] s = 2 -> "intervals" [] OTHER -> "location"
StageType(s) == CASE s = 1 -> "POSITION" [] s = 2 -> "INTERVAL" [] OTHER -> "LOCATION"

\* get_positions and get_intervals ask with the session key alone; get_locations
\* adds date >= utcnow() - 5 s, a parameter that differs from call to call
StageKey(s) == CacheKey(StageEndpoint(s), IF s = 3 THEN now ELSE NoDate)

\* get_current_session, get_positions, ...: the list _make_request returned, the
\* empty list if it raised
FetchResult == IF calls[Scheduler].outcome = "raised" THEN <<>> ELSE calls[Scheduler].result

\* the loop runs: it was resumed and has not reached an await that suspends.
\* Nothing else runs meanwhile.
SchedRunning ==
    \/ spc = "top"
    \/ spc \in {"session", "fetch"} /\ calls[Scheduler].pc = "done"

Sleep(d) ==
    /\ spc' = "sleep"
    /\ swake' = now + d
    /\ stage' = 0

\* after stage s and its broadcast: lines 112 and 125, or line 145
AfterStage(s) ==
    IF s < 3
    THEN /\ spc' = "gap"
         /\ swake' = now + FetchGap
         /\ stage' = s
    ELSE Sleep(CycleSleep)

\* lines 79-83 and 143-145
SchedTop ==
    /\ spc = "top"
    /\ IF active_connections # <<>>
       THEN /\ BeginFetch(Scheduler, SessionsKey)
            /\ spc' = "session"
            /\ UNCHANGED <<stage, swake>>
       ELSE /\ Sleep(CycleSleep)
            /\ UNCHANGED <<calls, sem, last_request_time>>
    /\ UNCHANGED <<now, cache, rate_limited_until, consecutive_failures, wsVars, appVars>>

\* faulty variant: without the test of consecutive_failures
SchedSessionNoFailureCheck ==
    /\ spc = "session"
    /\ calls[Scheduler].pc = "done"
    /\ IF FetchResult = <<>>
       THEN /\ Sleep(CycleSleep)
            /\ calls' = [calls EXCEPT ![Scheduler] = Idle]
            /\ UNCHANGED <<sem, last_request_time>>
       ELSE IF rate_limited_until > now
       THEN /\ Sleep(RateLimitedSleep)
            /\ calls' = [calls EXCEPT ![Scheduler] = Idle]
            /\ UNCHANGED <<sem, last_request_time>>
       ELSE /\ BeginFetch(Scheduler, StageKey(1))
            /\ spc' = "fetch"
            /\ stage' = 1
            /\ UNCHANGED swake
    /\ UNCHANGED <<now, cache, rate_limited_until, consecutive_failures, wsVars, appVars>>

\* lines 84-102 and 143-145: the session lookup returned
SchedSession ==
    /\ spc = "session"
    /\ calls[Scheduler].pc = "done"
    /\ IF FetchResult = <<>>
       THEN /\ Sleep(CycleSleep)
            /\ calls' = [calls EXCEPT ![Scheduler] = Idle]
            /\ UNCHANGED <<sem, last_request_time>>
       ELSE IF rate_limited_until > now
       THEN /\ Sleep(RateLimitedSleep)
            /\ calls' = [calls EXCEPT ![Scheduler] = Idle]
            /\ UNCHANGED <<sem, last_request_time>>
       ELSE IF consecutive_failures > FailureThreshold
       THEN /\ Sleep(FailureSleep)
            /\ calls' = [calls EXCEPT ![Scheduler] = Idle]
            /\ UNCHANGED <<sem, last_request_time>>
       ELSE /\ BeginFetch(Scheduler, StageKey(1))
            /\ spc' = "fetch"
            /\ stage' = 1
            /\ UNCHANGED swake
    /\ UNCHANGED <<now, cache, rate_limited_until, consecutive_failures, wsVars, appVars>>

\* faulty variant: the result is broadcast without the test for emptiness
SchedFetchedBroadcastsEmpty ==
    /\ spc = "fetch"
    /\ calls[Scheduler].pc = "done"
    /\ IF active_connections # <<>>
       THEN /\ StartSends(StageType(stage), FetchResult, Elements(active_connections))
            /\ spc' = "bcast"
            /\ UNCHANGED <<stage, swake>>
       ELSE /\ AfterStage(stage)
            /\ UNCHANGED bc
    /\ calls' = [calls EXCEPT ![Scheduler] = Idle]
    /\ UNCHANGED <<now, svcVars, active_connections, connection_data, handlers, appVars>>

\* lines 102-109, 115-122, 128-135: a fetch returned; broadcast what it brought
SchedFetched ==
    /\ spc = "fetch"
    /\ calls[Scheduler].pc = "done"
    /\ IF FetchResult # <<>> /\ active_connections # <<>>
       THEN /\ StartSends(StageType(stage), FetchResult, Elements(active_connections))
            /\ spc' = "bcast"
            /\ UNCHANGED <<stage, swake>>
       ELSE /\ AfterStage(stage)
            /\ UNCHANGED bc
    /\ calls' = [calls EXCEPT ![Scheduler] = Idle]
    /\ UNCHANGED <<now, svcVars, active_connections, connection_data, handlers, appVars>>

\* the broadcast returned: lines 112, 125, 143-145
SchedBroadcastReturn ==
    /\ spc = "bcast"
    /\ BroadcastEnd
    /\ AfterStage(stage)
    /\ UNCHANGED <<now, svcVars, calls, active_connections, connection_data, handlers,
                   appVars>>

\* sleep(2) is over: lines 115 and 128
SchedGapWake ==
    /\ spc = "gap"
    /\ now >= swake
    /\ BeginFetch(Scheduler, StageKey(stage + 1))
    /\ spc' = "fetch"
    /\ stage' = stage + 1
    /\ UNCHANGED <<now, cache, rate_limited_until, consecutive_failures, wsVars, swake,
                   appVars>>

\* faulty variant: after a sleep the loop goes on to the session lookup without
\* looking at the registry
SchedSleepWakeSkipsCheck ==
    /\ spc = "sleep"
    /\ now >= swake
    /\ BeginFetch(Scheduler, SessionsKey)
    /\ spc' = "session"
    /\ UNCHANGED <<now, cache, rate_limited_until, consecutive_failures, wsVars, stage,
                   swake, appVars>>

\* a sleep that ends the cycle is over: back to line 79
SchedSleepWake ==
    /\ spc = "sleep"
    /\ now >= swake
    /\ spc' = "top"
    /\ UNCHANGED <<now, svcVars, calls, wsVars, stage, swake, appVars>>

----------------------------------------------------------------------------
(* Live timing: F1Service.get_live_timing_data *)

\* an optional value: None, or the value in a one-element tuple
None == <<>>
Some(v) == <<v>>

\* the six lists the aggregation asks for, in the order it asks
Sources == <<"drivers", "position", "laps", "intervals", "stints", "pit">>

RECURSIVE InsertByKey(_, _, _, _)
\* `order` lists indices in sorted order; index i goes behind every index whose
\* key does not have to come after keys[i]
InsertByKey(order, keys, i, reverse) ==
    IF order = <<>> THEN <<i>>
    ELSE IF (IF reverse THEN keys[Head(order)] >= keys[i] ELSE keys[Head(order)] <= keys[i])
    THEN <<Head(order)>> \o InsertByKey(Tail(order), keys, i, reverse)
    ELSE <<i>> \o order

RECURSIVE SortOrder(_, _, _)
\* the order in which a stable sort puts the first n items
SortOrder(keys, n, reverse) ==
    IF n = 0 THEN <<>>
    ELSE InsertByKey(SortOrder(keys, n - 1, reverse), keys, n, reverse)

\* faulty variant: reverse=True as an ascending sort read backwards, which turns
\* the order of items with equal keys around
sortedThenReversed(list, keys, reverse) ==
    LET n == Len(list)
        order == SortOrder(keys, n, FALSE)
    IN  [i \in 1..n |-> list[order[IF reverse THEN n + 1 - i ELSE i]]]

\* sorted(list, key=..., reverse=...) and list.sort(key=...): stable, also with
\* reverse=True; keys[i] is the key of list[i]
sorted(list, keys, reverse) ==
    LET order == SortOrder(keys, Len(list), reverse)
    IN  [i \in 1..Len(list) |-> list[order[i]]]

\* next((x for x in list if x.get('driver_number') == driver_number), None)
FirstOfDriver(list, driver_number) ==
    LET matching == {i \in DOMAIN list : list[i].driver_number = driver_number}
    IN  IF matching = {} THEN None
        ELSE Some(list[CHOOSE i \in matching : \A j \in matching : i <= j])

\* lines 274-296: the driver's first record in the list sorted by `field`, largest first
Latest(list, field, driver_number) ==
    FirstOfDriver(sorted(list, [i \in DOMAIN list |-> list[i][field]], TRUE), driver_number)

\* a formatted text: its pattern and the numbers in it (durations in milliseconds)
Text(pattern, minutes, millis) == [text |-> pattern, minutes |-> minutes, millis |-> millis]

\* faulty variant: the seconds are the remainder of 100 s, not of 60 s
format_lap_timeNoCarry(seconds) ==
    IF seconds = None \/ seconds[1] <= 0 THEN Text("--:--.---", 0, 0)
    ELSE Text("M:SS.mmm", seconds[1] \div 60000, seconds[1] % 100000)

format_lap_time(seconds) ==
    IF seconds = None \/ seconds[1] <= 0 THEN Text("--:--.---", 0, 0)
    ELSE Text("M:SS.mmm", seconds[1] \div 60000, seconds[1] % 60000)

format_sector_time(seconds) ==
    IF seconds = None \/ seconds[1] <= 0 THEN Text("---.---", 0, 0)
    ELSE Text("S.mmm", 0, seconds[1])

format_gap(gap) ==
    IF gap = None \/ gap[1] = 0 THEN Text("--", 0, 0)
    ELSE IF gap[1] < 60000 THEN Text("+S.mmm", 0, gap[1])
    ELSE Text("+M:SS.mmm", gap[1] \div 60000, gap[1] % 60000)

RECURSIVE Padded(_, _)
\* the decimal digits of n, zero-padded on the left to `width` characters
Padded(n, width) ==
    LET digits == <<"0", "1", "2", "3", "4", "5", "6", "7", "8", "9">> IN
    IF n < 10 /\ width <= 1 THEN <<digits[n + 1]>>
    ELSE Padded(n \div 10, width - 1) \o <<digits[(n % 10) + 1]>>

\* the characters of a formatted text: what the placeholders and the f-strings
\* f"{minutes}:{secs:06.3f}", f"{seconds:.3f}" and f"+{gap:.3f}" produce
Render(t) ==
    LET fixed3(ms) == (IF ms < 0 THEN <<"-">> ELSE <<>>)
                      \o Padded((IF ms < 0 THEN -ms ELSE ms) \div 1000, 1) \o <<".">>
                      \o Padded((IF ms < 0 THEN -ms ELSE ms) % 1000, 3)
        clock == Padded(t.minutes, 1) \o <<":">> \o Padded(t.millis \div 1000, 2)
                 \o <<".">> \o Padded(t.millis % 1000, 3)
    IN  CASE t.text = "M:SS.mmm" -> clock
          [] t.text = "+M:SS.mmm" -> <<"+">> \o clock
          [] t.text = "S.mmm" -> fixed3(t.millis)
          [] t.text = "+S.mmm" -> <<"+">> \o fixed3(t.millis)
          [] t.text = "--:--.---" -> <<"-", "-", ":", "-", "-", ".", "-", "-", "-">>
          [] t.text = "---.---" -> <<"-", "-", "-", ".", "-", "-", "-">>
          [] t.text = "--" -> <<"-", "-">>

calculate_tyre_age(stint, latest_lap) ==
    latest_lap.lap_number - stint.lap_start + stint.tyre_age_at_start

\* x.get('position') or 999
PositionOr999(position) ==
    IF position = None \/ position[1] = 0 THEN 999 ELSE position[1]

\* lines 271-318: one driver's entry
DriverTiming(driver, positions, laps, intervals, stints, pit_data) ==
    LET driver_number == driver.driver_number
        latest_position == Latest(positions, "date", driver_number)
        latest_lap == Latest(laps, "lap_number", driver_number)
        latest_interval == Latest(intervals, "date", driver_number)
        current_stint == Latest(stints, "stint_number", driver_number)
        pit_stops == Cardinality({i \in DOMAIN pit_data :
                                     pit_data[i].driver_number = driver_number})
    IN  [driver |-> driver,
         position |-> IF latest_position # None THEN latest_position[1].position ELSE None,
         lapTime |-> IF latest_lap # None THEN format_lap_time(latest_lap[1].lap_duration)
                     ELSE Text("--:--.---", 0, 0),
         sector1 |-> IF latest_lap # None
                     THEN format_sector_time(latest_lap[1].duration_sector_1)
                     ELSE Text("---.---", 0, 0),
         sector2 |-> IF latest_lap # None
                     THEN format_sector_time(latest_lap[1].duration_sector_2)
                     ELSE Text("---.---", 0, 0),
         sector3 |-> IF latest_lap # None
                     THEN format_sector_time(latest_lap[1].duration_sector_3)
                     ELSE Text("---.---", 0, 0),
         gap |-> IF latest_interval # None THEN format_gap(latest_interval[1].gap_to_leader)
                 ELSE Text("--", 0, 0),
         interval |-> IF latest_interval # None THEN format_gap(latest_interval[1].interval)
                      ELSE Text("--", 0, 0),
         lastLap |-> IF latest_lap # None THEN latest_lap[1].lap_number ELSE 0,
         tyreCompound |-> IF current_stint # None THEN current_stint[1].compound
                          ELSE "UNKNOWN",
         tyreAge |-> IF current_stint # None /\ latest_lap # None
                     THEN calculate_tyre_age(current_stint[1], latest_lap[1]) ELSE 0,
         pitStops |-> pit_stops]

NoResult == [driverTimings |-> <<>>, error |-> None, lastUpdate |-> None,
             sessionKey |-> None]

\* faulty variant: an empty list among the six ends the aggregation in an error
TimingResultNeedsEverySource(got) ==
    IF \E i \in DOMAIN got : got[i].list = <<>>
    THEN [NoResult EXCEPT !.error = Some("No data")]
    ELSE LET timings == [i \in DOMAIN got[1].list |->
                           DriverTiming(got[1].list[i], got[2].list, got[3].list,
                                        got[4].list, got[5].list, got[6].list)]
         IN  [driverTimings |->
                  sorted(timings, [i \in DOMAIN timings |->
                                      PositionOr999(timings[i].position)], FALSE),
              error |-> None,
              lastUpdate |-> Some(now),
              sessionKey |-> Some("latest")]

\* lines 270-326: the entries of all drivers, sorted, with the time and the session
TimingResult(got) ==
    LET timings == [i \in DOMAIN got[1].list |->
                      DriverTiming(got[1].list[i], got[2].list, got[3].list,
                                   got[4].list, got[5].list, got[6].list)]
    IN  [driverTimings |->
             sorted(timings, [i \in DOMAIN timings |->
                                 PositionOr999(timings[i].position)], FALSE),
         error |-> None,
         lastUpdate |-> Some(now),
         sessionKey |-> Some("latest")]

\* what get_drivers, get_positions, ... can hand back when upstream holds `list`:
\* the list; nothing, after a failure with no cache entry; or, after a failure,
\* the list an earlier request left in the cache
Outcomes(list) ==
    {[failed |-> FALSE, list |-> list],
     [failed |-> TRUE, list |-> <<>>],
     [failed |-> TRUE, list |-> list]}

NoAggregate == [pc |-> "idle", step |-> 0, feed |-> <<>>, got |-> <<>>,
                result |-> NoResult]

\* the route handler calls get_live_timing_data, which awaits get_drivers
LiveTimingCall ==
    /\ agg.pc = "idle"
    /\ agg' = [agg EXCEPT !.pc = "fetch", !.step = 1]

\* faulty variant: an empty roster does not end the aggregation
SourceReturnedNoShortCircuit(o) ==
    /\ agg.pc = "fetch"
    /\ o \in Outcomes(agg.feed[Sources[agg.step]])
    /\ LET got == Append(agg.got, o) IN
       agg' = IF agg.step < Len(Sources)
              THEN [agg EXCEPT !.pc = "sleep", !.got = got]
              ELSE [agg EXCEPT !.pc = "done", !.got = got, !.result = TimingResult(got)]

\* the awaited get_... returned o: lines 252-256, or on to the sleep(0.5) that
\* follows, or, after get_pit_data, lines 270-326
SourceReturned(o) ==
    /\ agg.pc = "fetch"
    /\ o \in Outcomes(agg.feed[Sources[agg.step]])
    /\ LET got == Append(agg.got, o) IN
       agg' = IF agg.step = 1 /\ o.list = <<>>
              THEN [agg EXCEPT !.pc = "done", !.got = got,
                               !.result = [NoResult EXCEPT
                                              !.error = Some("No drivers found")]]
              ELSE IF agg.step < Len(Sources)
              THEN [agg EXCEPT !.pc = "sleep", !.got = got]
              ELSE [agg EXCEPT !.pc = "done", !.got = got, !.result = TimingResult(got)]

\* sleep(0.5) is over: the next get_... is awaited
TimingWake ==
    /\ agg.pc = "sleep"
    /\ agg' = [agg EXCEPT !.pc = "fetch", !.step = @ + 1]

----------------------------------------------------------------------------
InitService ==
    /\ now = 0
    /\ cache = <<>>
    /\ rate_limited_until = 0
    /\ consecutive_failures = 0
    \* the source starts it at 0, the epoch: long before the program's start
    /\ last_request_time = 0 - request_delay
    /\ sem = SemaphorePermits

InitManager ==
    /\ active_connections = <<>>
    /\ connection_data = <<>>
    /\ handlers = [c \in Conns |-> "new"]
    /\ bc = NoBroadcast
    /\ endpoints = [c \in Conns |-> NoEndpoint]
    /\ shutdown = NoShutdown
    /\ unsubscribed = [c \in Conns |-> {}]

\* the streaming loop is not started
InitNoScheduler ==
    /\ spc = "off"
    /\ stage = 0
    /\ swake = 0

Init ==
    /\ InitService
    /\ calls = [t \in Tasks |-> Idle]
    /\ InitManager
    /\ InitNoScheduler
    /\ agg = NoAggregate

RouteCall ==
    /\ \E t \in RouteTasks : \E k \in RouteRequests(t) : Call(t, CacheKey(k[1], k[2]))
    /\ UNCHANGED <<wsVars, schedVars, appVars>>
RouteResume ==
    /\ \E t \in RouteTasks : Resume(t)
    /\ UNCHANGED <<wsVars, schedVars, appVars>>
RouteWakePace ==
    /\ \E t \in RouteTasks : WakePace(t)
    /\ UNCHANGED <<wsVars, schedVars, appVars>>
RouteRespond ==
    /\ \E t \in RouteTasks : \E r \in Responses(calls[t].key) :
            WithinMaxFailures(r) /\ Respond(t, r)
    /\ UNCHANGED <<wsVars, schedVars, appVars>>

Next ==
    \/ RouteCall
    \/ RouteResume
    \/ RouteWakePace
    \/ RouteRespond
    \/ Tick

Spec == Init /\ [][Next]_vars

----------------------------------------------------------------------------
(* More calls than permits: six tasks call _make_request once each, for the  *)
(* same key.  Every request ends in a status other than 200, so that nothing *)
(* is cached and every call has to send a request of its own.                *)

PoolTasks == {"p1", "p2", "p3", "p4", "p5", "p6"}

InitPool ==
    /\ InitService
    /\ calls = [t \in PoolTasks |-> Idle]
    /\ InitManager
    /\ InitNoScheduler
    /\ agg = NoAggregate

NextPool ==
    \/ /\ \E t \in PoolTasks : calls[t].pc = "idle" /\ Call(t, SessionsKey)
       /\ UNCHANGED <<wsVars, schedVars, appVars>>
    \/ /\ \E t \in PoolTasks : Resume(t)
       /\ UNCHANGED <<wsVars, schedVars, appVars>>
    \/ /\ \E t \in PoolTasks : WakePace(t)
       /\ UNCHANGED <<wsVars, schedVars, appVars>>
    \/ /\ \E t \in PoolTasks : \E r \in Responses(calls[t].key) :
              /\ Handler(r) = "status"
              /\ Respond(t, r)
       /\ UNCHANGED <<wsVars, schedVars, appVars>>
    \/ Tick

SpecPool == InitPool /\ [][NextPool]_vars

----------------------------------------------------------------------------
(* The broadcast manager alone: websockets come and go, somebody broadcasts *)

MessageTypes == {"POSITION", "INTERVAL"}
SubscriptionActions == {"subscribe", "unsubscribe"}
SomeData == <<[of |-> CacheKey("position", NoDate), ver |-> "a"]>>

BcConnect ==
    /\ \E c \in Conns : connect(c)
    /\ UNCHANGED <<now, svcVars, calls, bc, schedVars, appVars>>
BcHandlerExit ==
    /\ \E c \in Conns : HandlerExit(c)
    /\ UNCHANGED <<now, svcVars, calls, bc, schedVars, appVars>>
\* a caller awaits broadcast(message); one broadcast at a time
BcBroadcast ==
    /\ bc.state # "sending"
    /\ \E type \in MessageTypes :
          IF active_connections = <<>>
          THEN bc' = [NoBroadcast EXCEPT !.state = "returned", !.type = type,
                                         !.data = SomeData, !.timestamp = now]
          ELSE BroadcastBegin(type, SomeData)
    /\ UNCHANGED <<now, svcVars, calls, active_connections, connection_data, handlers,
                   schedVars, appVars>>
\* a caller awaits broadcast_to_subscribed(message, data_type)
BcBroadcastToSubscribed ==
    /\ bc.state # "sending"
    /\ \E type \in MessageTypes : \E data_type \in Topics :
          IF active_connections = <<>>
          THEN bc' = [NoBroadcast EXCEPT !.state = "returned", !.type = type,
                                         !.data = SomeData, !.timestamp = now,
                                         !.topic = data_type]
          ELSE BroadcastToSubscribedBegin(type, SomeData, data_type)
    /\ UNCHANGED <<now, svcVars, calls, active_connections, connection_data, handlers,
                   schedVars, appVars>>
\* a caller calls update_subscription, for a websocket that is registered or not
BcUpdateSubscription ==
    /\ \E c \in Conns : \E data_types \in SUBSET Topics :
          \E action \in SubscriptionActions : update_subscription(c, data_types, action)
    /\ UNCHANGED <<now, svcVars, calls, handlers, bc, schedVars, appVars>>
BcSendOk ==
    /\ \E c \in Conns : SendOk(c)
    /\ UNCHANGED <<now, svcVars, calls, handlers, schedVars, appVars>>
BcSendFail ==
    /\ \E c \in Conns : SendFail(c)
    /\ UNCHANGED <<now, svcVars, calls, handlers, schedVars, appVars>>
BcBroadcastEnd ==
    /\ BroadcastEnd
    /\ UNCHANGED <<now, svcVars, calls, active_connections, connection_data, handlers,
                   schedVars, appVars>>

NextBroadcast ==
    \/ BcConnect
    \/ BcHandlerExit
    \/ BcBroadcast
    \/ BcBroadcastToSubscribed
    \/ BcUpdateSubscription
    \/ BcSendOk
    \/ BcSendFail
    \/ BcBroadcastEnd

SpecBroadcast == Init /\ [][NextBroadcast]_vars

----------------------------------------------------------------------------
(* The streaming loop with its websockets and its own calls of the client *)

InitSched ==
    /\ InitService
    /\ calls = [t \in Tasks |-> Idle]
    /\ InitManager
    /\ spc = "top"
    /\ stage = 0
    /\ swake = 0
    /\ agg = NoAggregate

SchedResume ==
    /\ Resume(Scheduler)
    /\ UNCHANGED <<wsVars, schedVars, appVars>>
SchedWakePace ==
    /\ WakePace(Scheduler)
    /\ UNCHANGED <<wsVars, schedVars, appVars>>
SchedRespond ==
    /\ \E r \in Responses(calls[Scheduler].key) :
            WithinMaxFailures(r) /\ Respond(Scheduler, r)
    /\ UNCHANGED <<wsVars, schedVars, appVars>>
LoopConnect ==
    /\ ~SchedRunning
    /\ \E c \in SchedConns : connect(c)
    /\ UNCHANGED <<now, svcVars, calls, bc, schedVars, appVars>>
LoopHandlerExit ==
    /\ ~SchedRunning
    /\ \E c \in SchedConns : HandlerExit(c)
    /\ UNCHANGED <<now, svcVars, calls, bc, schedVars, appVars>>
LoopSendOk ==
    /\ \E c \in SchedConns : SendOk(c)
    /\ UNCHANGED <<now, svcVars, calls, handlers, schedVars, appVars>>
LoopSendFail ==
    /\ \E c \in SchedConns : SendFail(c)
    /\ UNCHANGED <<now, svcVars, calls, handlers, schedVars, appVars>>
LoopTick ==
    /\ ~SchedRunning
    /\ TickTo(MaxLoopTime)

NextSched ==
    \/ SchedTop
    \/ SchedSession
    \/ SchedFetched
    \/ SchedBroadcastReturn
    \/ SchedGapWake
    \/ SchedSleepWake
    \/ SchedResume
    \/ SchedWakePace
    \/ SchedRespond
    \/ LoopConnect
    \/ LoopHandlerExit
    \/ LoopSendOk
    \/ LoopSendFail
    \/ LoopTick

SpecSched == InitSched /\ [][NextSched]_vars

----------------------------------------------------------------------------
(* The streaming loop while the upstream is out of order: every request      *)
(* fails, for as long as the program runs.  Time has no end here, so the     *)
(* clock is kept relative: `now` stays where it is and a tick moves every    *)
(* stored instant one back.  The program only compares stored instants with  *)
(* `now`, so an instant stops moving where its comparison cannot change.     *)

Max(a, b) == IF a > b THEN a ELSE b

\* one tick passes
Elapse ==
    /\ cache' = [k \in DOMAIN cache |->
                   [cache[k] EXCEPT !.timestamp = Max(@ - 1, now - cache_ttl)]]
    /\ rate_limited_until' = Max(rate_limited_until - 1, now)
    /\ last_request_time' = Max(last_request_time - 1, now - request_delay)
    /\ calls' = [t \in Tasks |-> [calls[t] EXCEPT !.wake = Max(@ - 1, now)]]
    /\ swake' = Max(swake - 1, now)
    /\ UNCHANGED <<now, consecutive_failures, sem, wsVars, spc, stage, appVars>>

\* what the loop's earlier cycles left in the cache: the session, the positions
\* and the intervals, each entry fresh or older than cache_ttl
OutageKeys == {SessionsKey, CacheKey("position", NoDate), CacheKey("intervals", NoDate)}

InitOutage ==
    /\ now = 0
    /\ \E age \in [OutageKeys -> {0, cache_ttl}] :
          cache = [k \in OutageKeys |->
                     [data |-> <<[of |-> k, ver |-> "a"]>>, timestamp |-> now - age[k]]]
    /\ rate_limited_until = 0
    /\ consecutive_failures = 0
    /\ last_request_time = 0 - request_delay
    /\ sem = SemaphorePermits
    /\ calls = [t \in Tasks |-> Idle]
    /\ InitManager
    /\ spc = "top"
    /\ stage = 0
    /\ swake = 0
    /\ agg = NoAggregate

\* a request of the loop ends, and not in a success
OutageRespond ==
    /\ \E r \in Responses(calls[Scheduler].key) :
            Handler(r) # "success" /\ Respond(Scheduler, r)
    /\ UNCHANGED <<wsVars, schedVars, appVars>>
OutageElapse ==
    /\ ~SchedRunning
    /\ Elapse

NextOutage ==
    \/ SchedTop
    \/ SchedSession
    \/ SchedFetched
    \/ SchedBroadcastReturn
    \/ SchedGapWake
    \/ SchedSleepWake
    \/ SchedResume
    \/ SchedWakePace
    \/ OutageRespond
    \/ LoopConnect
    \/ LoopHandlerExit
    \/ LoopSendOk
    \/ LoopSendFail
    \/ OutageElapse

\* the event loop runs every coroutine that is ready, time passes, every request
\* ends (the client session has a total timeout) and every send ends
FairOutage ==
    /\ WF_vars(SchedTop)
    /\ WF_vars(SchedSession)
    /\ WF_vars(SchedFetched)
    /\ WF_vars(SchedBroadcastReturn)
    /\ WF_vars(SchedGapWake)
    /\ WF_vars(SchedSleepWake)
    /\ WF_vars(SchedResume)
    /\ WF_vars(SchedWakePace)
    /\ WF_vars(OutageRespond)
    /\ WF_vars(LoopSendOk \/ LoopSendFail)
    /\ WF_vars(OutageElapse)

SpecOutage == InitOutage /\ [][NextOutage]_vars /\ FairOutage

----------------------------------------------------------------------------
(* The streaming loop while the upstream is in order and a client is slow:   *)
(* every request ends in a success with data.  The send to websocket c1      *)
(* always ends (it returns or it raises); the send to c2 may take for ever,  *)
(* as a send does whose peer has stopped reading.  The clock is relative, as *)
(* in SpecOutage.                                                            *)

\* a request of the loop ends in a success that carries records
StreamRespond ==
    /\ \E r \in Responses(calls[Scheduler].key) :
            Handler(r) = "success" /\ r.data # <<>> /\ Respond(Scheduler, r)
    /\ UNCHANGED <<wsVars, schedVars, appVars>>

\* the send to c1 returns or raises
HealthySend ==
    /\ SendOk("c1") \/ SendFail("c1")
    /\ UNCHANGED <<now, svcVars, calls, handlers, schedVars, appVars>>

NextStream ==
    \/ SchedTop
    \/ SchedSession
    \/ SchedFetched
    \/ SchedBroadcastReturn
    \/ SchedGapWake
    \/ SchedSleepWake
    \/ SchedWakePace
    \/ StreamRespond
    \/ LoopConnect
    \/ LoopHandlerExit
    \/ LoopSendOk
    \/ LoopSendFail
    \/ OutageElapse

\* the event loop runs every coroutine that is ready, time passes, every request
\* ends and the send to c1 ends; nothing makes the send to c2 end
FairStream ==
    /\ WF_vars(SchedTop)
    /\ WF_vars(SchedSession)
    /\ WF_vars(SchedFetched)
    /\ WF_vars(SchedBroadcastReturn)
    /\ WF_vars(SchedGapWake)
    /\ WF_vars(SchedSleepWake)
    /\ WF_vars(SchedWakePace)
    /\ WF_vars(StreamRespond)
    /\ WF_vars(HealthySend)
    /\ WF_vars(OutageElapse)

SpecStream == InitSched /\ [][NextStream]_vars /\ FairStream

----------------------------------------------------------------------------
(* The streaming loop after the upstream has recovered: every request ends   *)
(* in a success with data, and every send ends.  What the outage left behind *)
(* is in the initial state: a count of failures, a rate limit that is still  *)
(* running, a session in the cache (a route of the API put it there) or      *)
(* none.  The clock is relative, as in SpecOutage.                           *)

InitRecovery ==
    /\ now = 0
    /\ \E entry \in {"none", "fresh", "old"} :
          cache = IF entry = "none" THEN <<>>
                  ELSE [k \in {SessionsKey} |->
                          [data |-> <<[of |-> k, ver |-> "a"]>>,
                           timestamp |-> IF entry = "fresh" THEN now ELSE now - cache_ttl]]
    /\ rate_limited_until \in {now, now + 1, now + DefaultRetryAfter}
    /\ consecutive_failures \in {0, FailureThreshold, FailureThreshold + 1, FailureCap}
    /\ last_request_time = 0 - request_delay
    /\ sem = SemaphorePermits
    /\ calls = [t \in Tasks |-> Idle]
    /\ InitManager
    \* the loop is in the sleep that ends a cycle, and the sleep is over
    /\ spc = "sleep"
    /\ stage = 0
    /\ swake = now
    /\ agg = NoAggregate

NextRecovery ==
    \/ SchedTop
    \/ SchedSession
    \/ SchedFetched
    \/ SchedBroadcastReturn
    \/ SchedGapWake
    \/ SchedSleepWake
    \/ SchedResume
    \/ SchedWakePace
    \/ StreamRespond
    \/ LoopConnect
    \/ LoopHandlerExit
    \/ LoopSendOk
    \/ LoopSendFail
    \/ OutageElapse

\* the event loop runs every coroutine that is ready, time passes, every request
\* ends and every send ends
FairRecovery ==
    /\ WF_vars(SchedTop)
    /\ WF_vars(SchedSession)
    /\ WF_vars(SchedFetched)
    /\ WF_vars(SchedBroadcastReturn)
    /\ WF_vars(SchedGapWake)
    /\ WF_vars(SchedSleepWake)
    /\ WF_vars(SchedResume)
    /\ WF_vars(SchedWakePace)
    /\ WF_vars(StreamRespond)
    /\ WF_vars(LoopSendOk \/ LoopSendFail)
    /\ WF_vars(OutageElapse)

SpecRecovery == InitRecovery /\ [][NextRecovery]_vars /\ FairRecovery

----------------------------------------------------------------------------
(* The websocket endpoints with the broadcast manager: two websockets run    *)
(* websocket_endpoint while somebody broadcasts                              *)

NextEndpoint ==
    \/ /\ \E c \in SchedConns : \E accepted \in BOOLEAN : EndpointConnect(c, accepted)
       /\ UNCHANGED <<now, svcVars, calls, bc, schedVars, agg, shutdown, unsubscribed>>
    \/ /\ \E c \in SchedConns : \E session, sent_ok \in BOOLEAN :
              EndpointHello(c, session, sent_ok)
       /\ UNCHANGED <<now, svcVars, calls, bc, schedVars, agg, shutdown, unsubscribed>>
    \/ /\ \E c \in SchedConns : \E m \in ClientEvents : \E sent_ok \in BOOLEAN :
              EndpointReceive(c, m, sent_ok)
       /\ UNCHANGED <<now, svcVars, calls, bc, schedVars, agg, shutdown, unsubscribed>>
    \/ /\ \E c \in SchedConns : \E sent_ok \in BOOLEAN : EndpointTimeout(c, sent_ok)
       /\ UNCHANGED <<now, svcVars, calls, bc, schedVars, agg, shutdown, unsubscribed>>
    \/ /\ bc.state # "sending"
       /\ BroadcastBegin("POSITION", SomeData)
       /\ UNCHANGED <<now, svcVars, calls, active_connections, connection_data, handlers,
                      schedVars, appVars>>
    \/ BcSendOk
    \/ BcSendFail
    \/ BcBroadcastEnd
    \/ Tick

SpecEndpoint == Init /\ [][NextEndpoint]_vars

----------------------------------------------------------------------------
(* Shutdown: shutdown_event while the streaming loop runs.  The server has   *)
(* stopped listening when it announces the shutdown to the application, so   *)
(* no websocket is accepted from then on; the open ones may still go away.   *)
(* Nothing in shutdown_event looks at the clock, which stands still here     *)
(* once the shutdown has begun.                                              *)

\* main.py 64-71: shutdown_event cancels the streaming task and awaits it.  The
\* loop stands at an await and CancelledError is raised there.  CancelledError
\* is a BaseException: no `except Exception` of the loop, of the fetches or of
\* _send_safe takes it.  `async with` gives back the permit of a request that
\* is under way, gather cancels the sends that are pending, the task ends.
CancelStreaming ==
    /\ shutdown.pc = "off"
    /\ spc \notin {"off", "cancelled"}
    /\ ~SchedRunning
    /\ shutdown' = [shutdown EXCEPT !.pc = "cancelled"]
    /\ spc' = "cancelled"
    /\ sem' = IF calls[Scheduler].pc \in {"pace_sleep", "inflight"} THEN sem + 1 ELSE sem
    /\ calls' = [calls EXCEPT ![Scheduler] = Idle]
    /\ bc' = IF bc.state = "sending"
             THEN [bc EXCEPT !.state = "cancelled", !.pending = {}] ELSE bc
    /\ UNCHANGED <<now, cache, rate_limited_until, consecutive_failures,
                   last_request_time, active_connections, connection_data, handlers,
                   stage, swake, agg, endpoints, unsubscribed>>

\* main.py 72 and websocket_handler.py 36-39: the awaited task has ended;
\* disconnect_all copies the registry and awaits close() of the first websocket,
\* or returns at once when nobody is registered
DisconnectAllBegin ==
    /\ shutdown.pc = "cancelled"
    /\ shutdown' = [shutdown EXCEPT
                       !.pc = IF active_connections = <<>> THEN "done" ELSE "closing",
                       !.copy = active_connections]
    /\ UNCHANGED <<now, svcVars, calls, wsVars, schedVars, agg, endpoints, unsubscribed>>

\* faulty variant: a websocket whose close() raised stays in the registry
CloseNextKeepsRaised(raises) ==
    /\ shutdown.pc = "closing"
    /\ LET c == Head(shutdown.copy) IN
       /\ IF raises THEN UNCHANGED <<active_connections, connection_data>>
          ELSE disconnect(c)
       /\ shutdown' = [shutdown EXCEPT
                          !.pc = IF Tail(shutdown.copy) = <<>> THEN "done" ELSE "closing",
                          !.copy = Tail(@),
                          !.closed = IF raises THEN @ ELSE @ \cup {c},
                          !.raised = IF raises THEN @ \cup {c} ELSE @]
    /\ UNCHANGED <<now, svcVars, calls, handlers, bc, schedVars, agg, endpoints, unsubscribed>>

\* websocket_handler.py 38-43 and main.py 73-75: close() of the next websocket
\* of the copy returned or raised; it is taken out of the registry either way;
\* after the last one shutdown_event closes the client session and returns
CloseNext(raises) ==
    /\ shutdown.pc = "closing"
    /\ LET c == Head(shutdown.copy) IN
       /\ disconnect(c)
       /\ shutdown' = [shutdown EXCEPT
                          !.pc = IF Tail(shutdown.copy) = <<>> THEN "done" ELSE "closing",
                          !.copy = Tail(@),
                          !.closed = IF raises THEN @ ELSE @ \cup {c},
                          !.raised = IF raises THEN @ \cup {c} ELSE @]
    /\ UNCHANGED <<now, svcVars, calls, handlers, bc, schedVars, agg, endpoints, unsubscribed>>

NextShutdown ==
    \/ SchedTop
    \/ SchedSession
    \/ SchedFetched
    \/ SchedBroadcastReturn
    \/ SchedGapWake
    \/ SchedSleepWake
    \/ SchedResume
    \/ SchedWakePace
    \/ SchedRespond
    \/ shutdown.pc = "off" /\ LoopConnect
    \/ LoopHandlerExit
    \/ LoopSendOk
    \/ LoopSendFail
    \/ shutdown.pc = "off" /\ ~SchedRunning /\ TickTo(MaxTime + 2)
    \/ CancelStreaming
    \/ DisconnectAllBegin
    \/ \E raises \in BOOLEAN : CloseNext(raises)

SpecShutdown == InitSched /\ [][NextShutdown]_vars

----------------------------------------------------------------------------
(* The registry under every operation of the manager: websockets connect,   *)
(* somebody broadcasts and sends raise, subscriptions change, disconnect is  *)
(* called for any websocket (registered, gone or never accepted), and        *)
(* disconnect_all runs, its close() calls interleaved with the rest          *)

\* connection_count(), lines 93-95
connection_count == Len(active_connections)

NextRegistry ==
    \/ BcConnect
    \/ BcHandlerExit
    \/ /\ \E c \in Conns : disconnect(c)
       /\ UNCHANGED <<now, svcVars, calls, handlers, bc, schedVars, appVars>>
    \/ /\ bc.state # "sending"
       /\ BroadcastBegin("POSITION", SomeData)
       /\ UNCHANGED <<now, svcVars, calls, active_connections, connection_data, handlers,
                      schedVars, appVars>>
    \/ /\ \E c \in Conns : \E action \in SubscriptionActions :
              update_subscription(c, {"POSITION"}, action)
       /\ UNCHANGED <<now, svcVars, calls, handlers, bc, schedVars, appVars>>
    \/ BcSendOk
    \/ BcSendFail
    \/ BcBroadcastEnd
    \* disconnect_all(), lines 36-40, up to its first close()
    \/ /\ shutdown.pc = "off"
       /\ shutdown' = [shutdown EXCEPT
                          !.pc = IF active_connections = <<>> THEN "done" ELSE "closing",
                          !.copy = active_connections]
       /\ UNCHANGED <<now, svcVars, calls, wsVars, schedVars, agg, endpoints, unsubscribed>>
    \/ \E raises \in BOOLEAN : CloseNext(raises)

SpecRegistry == Init /\ [][NextRegistry]_vars

----------------------------------------------------------------------------
(* Subscriptions and filtered broadcasts: two websockets subscribe and       *)
(* unsubscribe in any order while somebody calls broadcast_to_subscribed.    *)
(* `unsubscribed` records what each websocket has asked not to get.          *)

NextSubscription ==
    \/ LoopConnect
    \/ LoopHandlerExit
    \* update_subscription for a websocket, registered or not
    \/ /\ \E c \in SchedConns : \E data_types \in SUBSET Topics :
          \E action \in SubscriptionActions :
              /\ update_subscription(c, data_types, action)
              /\ unsubscribed' =
                    IF c \notin DOMAIN connection_data THEN unsubscribed
                    ELSE [unsubscribed EXCEPT ![c] =
                            IF action = "subscribe" THEN @ \ data_types
                            ELSE @ \cup data_types]
       /\ UNCHANGED <<now, svcVars, calls, handlers, bc, schedVars, agg, endpoints,
                      shutdown>>
    \* broadcast_to_subscribed(message, data_type)
    \/ /\ bc.state # "sending"
       /\ \E data_type \in Topics :
              BroadcastToSubscribedBegin(data_type, SomeData, data_type)
       /\ UNCHANGED <<now, svcVars, calls, active_connections, connection_data, handlers,
                      schedVars, appVars>>
    \/ LoopSendOk
    \/ LoopSendFail
    \/ BcBroadcastEnd

SpecSubscription == Init /\ [][NextSubscription]_vars

----------------------------------------------------------------------------
(* The live-timing route alone: get_live_timing_data runs once over what the *)
(* upstream holds for the session, each of its six fetches ending in one of  *)
(* the ways a fetch can end.                                                 *)

RECURSIVE ListsUpTo(_, _)
\* the lists of at most n elements of S
ListsUpTo(S, n) ==
    IF n = 0 THEN {<<>>}
    ELSE LET shorter == ListsUpTo(S, n - 1)
         IN  shorter \cup {Append(l, x) : l \in {m \in shorter : Len(m) = n - 1}, x \in S}

\* records of the upstream API, with the fields the aggregation reads
Driver(n) == [driver_number |-> n]
PositionRecord(n, date, position) ==
    [driver_number |-> n, date |-> date, position |-> Some(position)]
LapRecord(n, lap_number, lap_duration) ==
    [driver_number |-> n, lap_number |-> lap_number, lap_duration |-> lap_duration,
     duration_sector_1 |-> Some(28100), duration_sector_2 |-> Some(33034),
     duration_sector_3 |-> None]
IntervalRecord(n, date, gap_to_leader) ==
    [driver_number |-> n, date |-> date, gap_to_leader |-> gap_to_leader,
     interval |-> Some(1500)]
StintRecord(n, stint_number, lap_start, tyre_age_at_start, compound) ==
    [driver_number |-> n, stint_number |-> stint_number, lap_start |-> lap_start,
     tyre_age_at_start |-> tyre_age_at_start, compound |-> compound]
PitRecord(n) == [driver_number |-> n]

BaseFeed ==
    [drivers |-> <<Driver(44), Driver(1)>>,
     position |-> <<PositionRecord(44, 1, 3), PositionRecord(1, 1, 1)>>,
     laps |-> <<LapRecord(44, 15, Some(91234))>>,
     intervals |-> <<IntervalRecord(1, 1, Some(1500))>>,
     stints |-> <<StintRecord(44, 1, 10, 2, "SOFT")>>,
     pit |-> <<PitRecord(44), PitRecord(1), PitRecord(44)>>]

PositionLists ==
    ListsUpTo({PositionRecord(44, date, p) : date \in {1, 2}, p \in {1, 3}}
              \cup {PositionRecord(1, 2, 2)}, MaxRecords)
LapLists ==
    ListsUpTo({LapRecord(44, n, d) : n \in {9, 15}, d \in {Some(91234), None}}
              \cup {LapRecord(1, 15, Some(91234))}, MaxRecords)
IntervalLists ==
    ListsUpTo({IntervalRecord(44, date, g) : date \in {1, 2}, g \in {Some(1500), Some(75250)}}
              \cup {IntervalRecord(1, 2, None)}, MaxRecords)
StintLists ==
    ListsUpTo({StintRecord(44, n, 10, 2, "SOFT") : n \in {1, 2}}
              \cup {StintRecord(44, n, 16, 0, "HARD") : n \in {1, 2}}
              \cup {StintRecord(1, 1, 1, 0, "MEDIUM")}, MaxRecords)

\* three drivers, each with one position record or none
PositionValues == {0, 1, 3, 1000}
OptionalPosition(n, p) == IF p = None THEN <<>> ELSE <<PositionRecord(n, 1, p[1])>>
RankLists ==
    LET options == {None} \cup {Some(p) : p \in PositionValues}
    IN  {OptionalPosition(44, a) \o OptionalPosition(1, b) \o OptionalPosition(16, c) :
            a \in options, b \in options, c \in options}

\* durations in milliseconds: negative, zero, below and above a second, around
\* a minute, above an hour
DurationValues == {-1500, 0, 1, 999, 59999, 60000, 91234, 3725001}

\* what the upstream holds: one source varies, the others are as in BaseFeed;
\* or the newest lap and interval of driver 44 carry one of DurationValues
Feeds ==
    {[BaseFeed EXCEPT !.position = l] : l \in PositionLists}
    \cup {[BaseFeed EXCEPT !.drivers = <<Driver(44), Driver(1), Driver(16)>>,
                           !.position = l] : l \in RankLists}
    \cup {[BaseFeed EXCEPT !.laps = l] : l \in LapLists}
    \cup {[BaseFeed EXCEPT !.intervals = l] : l \in IntervalLists}
    \cup {[BaseFeed EXCEPT !.stints = l] : l \in StintLists}
    \cup {[BaseFeed EXCEPT !.drivers = <<>>]}
    \cup {[BaseFeed EXCEPT
              !.laps = <<[LapRecord(44, 15, Some(d)) EXCEPT !.duration_sector_1 = Some(d)]>>,
              !.intervals = <<[IntervalRecord(44, 1, Some(d)) EXCEPT !.interval = Some(d)]>>] :
           d \in DurationValues}

InitTiming ==
    /\ InitService
    /\ calls = [t \in Tasks |-> Idle]
    /\ InitManager
    /\ InitNoScheduler
    /\ \E feed \in Feeds : agg = [NoAggregate EXCEPT !.feed = feed]

TimingCall ==
    /\ LiveTimingCall
    /\ UNCHANGED <<now, svcVars, calls, wsVars, schedVars, endpoints, shutdown, unsubscribed>>
TimingSourceReturned ==
    /\ agg.pc = "fetch"
    /\ \E o \in Outcomes(agg.feed[Sources[agg.step]]) : SourceReturned(o)
    /\ UNCHANGED <<now, svcVars, calls, wsVars, schedVars, endpoints, shutdown, unsubscribed>>
TimingSleepOver ==
    /\ TimingWake
    /\ UNCHANGED <<now, svcVars, calls, wsVars, schedVars, endpoints, shutdown, unsubscribed>>

NextTiming ==
    \/ TimingCall
    \/ TimingSourceReturned
    \/ TimingSleepOver

SpecTiming == InitTiming /\ [][NextTiming]_vars

----------------------------------------------------------------------------
(* Properties of the upstream client, checked under Spec *)

\* task t starts a call in this step
Starts(t) == calls[t].pc \in {"idle", "done"} /\ calls'[t] # calls[t]

\* task t's request is sent in this step
Issues(t) == calls[t].pc # "inflight" /\ calls'[t].pc = "inflight"

\* task t's request ends in this step
Ends(t) == calls[t].pc = "inflight" /\ calls'[t].pc = "done"

OwnRecords(t) == \A i \in DOMAIN calls[t].result : calls[t].result[i].of = calls[t].key

\* C1: a request that ends in anything but a success does not raise: the call
\* returns the data cached under its own key, whatever its age, or the empty
\* list when that key has no entry, and never a record fetched for another key.
C1_FailureFallsBackToOwnKey ==
    [][\A t \in Tasks :
          Ends(t) /\ calls'[t].outcome # "success" =>
              /\ calls'[t].outcome # "raised"
              /\ calls'[t].result = (IF calls[t].key \in DOMAIN cache
                                     THEN cache[calls[t].key].data ELSE <<>>)
              /\ OwnRecords(t)']_vars

C1_Witness ==
    \E t \in Tasks :
        /\ calls[t].pc = "done"
        /\ calls[t].outcome = "exception"
        /\ calls[t].result # <<>>
        /\ \E k \in DOMAIN cache : k # calls[t].key /\ cache[k].data # <<>>

\* C2: a call for a key whose entry is younger than cache_ttl ends at once with
\* the entry's data and no request is sent; a call for a key whose entry is
\* cache_ttl old or older does not end before its own request was sent.
C2_OneRequestPerTtlWindow ==
    [][\A t \in Tasks :
          /\ Starts(t) /\ calls'[t].key \in DOMAIN cache =>
                LET e == cache[calls'[t].key] IN
                IF now - e.timestamp < cache_ttl
                THEN /\ calls'[t].pc = "done"
                     /\ calls'[t].outcome = "cached"
                     /\ calls'[t].result = e.data
                     /\ \A u \in Tasks : ~Issues(u)
                ELSE calls'[t].pc \in {"rl_sleep", "sem_wait", "pace_sleep", "inflight"}
          /\ calls[t].pc \in {"rl_sleep", "sem_wait", "pace_sleep"} =>
                calls'[t].pc # "done"]_vars

C2_Witness ==
    \E t, u \in Tasks :
        /\ calls[t].pc = "done" /\ calls[t].outcome = "cached"
        /\ calls[u].pc = "inflight"
        /\ calls[u].key = calls[t].key
        /\ calls[u].key \in DOMAIN cache
        /\ now - cache[calls[u].key].timestamp >= cache_ttl

\* C3: two calls for one key that overlap send one request between them: never
\* are two requests for the same key under way at once.
C3_OverlappingCallsShareOneRequest ==
    \A t, u \in Tasks :
        t # u /\ calls[t].pc = "inflight" /\ calls[u].pc = "inflight" =>
            calls[t].key # calls[u].key

\* C4: a request that ends in a 429, or in any other failure, returns the data
\* cached under its key and leaves the cache (data and timestamp of every entry)
\* as it was.
C4_FailureLeavesCacheUnchanged ==
    [][\A t \in Tasks : Ends(t) => \A r \in Responses(calls[t].key) :
          Respond(t, r) /\ ~(r.status = 200 /\ r.body = "json") =>
              /\ cache' = cache
              /\ calls[t].key \in DOMAIN cache =>
                    calls'[t].result = cache'[calls[t].key].data]_vars

C4_Witness ==
    \E t \in Tasks :
        /\ calls[t].pc = "done"
        /\ calls[t].outcome = "rate_limited"
        /\ calls[t].key \in DOMAIN cache
        /\ calls[t].result = cache[calls[t].key].data
        /\ calls[t].result # <<>>
        /\ now - cache[calls[t].key].timestamp >= cache_ttl

\* the delay a 429 asks for: Retry-After's, 60 s when the header is absent
RetryAfterAsked(h) == IF h.form = "absent" THEN DefaultRetryAfter ELSE h.seconds

\* C5: a 429 sets rate_limited_until to now + the delay asked for and adds one
\* to consecutive_failures; any other failure adds one to consecutive_failures
\* and leaves rate_limited_until as it was.
C5_RateLimitRecorded ==
    [][\A t \in Tasks : Ends(t) => \A r \in Responses(calls[t].key) :
          Respond(t, r) /\ ~(r.status = 200 /\ r.body = "json") =>
              /\ consecutive_failures' = consecutive_failures + 1
              /\ rate_limited_until' =
                    IF r.status = 429 THEN now + RetryAfterAsked(r.retry)
                    ELSE rate_limited_until]_vars

\* C6: a success stores [data, now] under the call's key, leaves every other
\* entry alone, resets consecutive_failures and returns the new data; and the
\* cache changes in no other way than by such a whole entry.
C6_SuccessReplacesWholeEntry ==
    [][/\ \A t \in Tasks : Ends(t) => \A r \in Responses(calls[t].key) :
            r.status = 200 /\ r.body = "json" /\ Respond(t, r) =>
                /\ DOMAIN cache' = DOMAIN cache \cup {calls[t].key}
                /\ cache'[calls[t].key] = [data |-> r.data, timestamp |-> now]
                /\ \A x \in DOMAIN cache \ {calls[t].key} : cache'[x] = cache[x]
                /\ consecutive_failures' = 0
                /\ calls'[t].result = r.data
       /\ \A x \in DOMAIN cache' :
            (x \notin DOMAIN cache \/ cache'[x] # cache[x]) =>
                \E t \in Tasks :
                    /\ Ends(t) /\ calls[t].key = x /\ calls'[t].outcome = "success"
                    /\ cache'[x] = [data |-> calls'[t].result, timestamp |-> now]
      ]_vars

C6_Witness ==
    \E t \in Tasks :
        /\ calls[t].pc = "done" /\ calls[t].outcome = "success"
        /\ calls[t].result # <<>>
        /\ cache[calls[t].key] = [data |-> calls[t].result, timestamp |-> now]
        /\ now >= cache_ttl
        /\ consecutive_failures = 0
        /\ \E x \in DOMAIN cache : x # calls[t].key /\ cache[x].timestamp < now

\* C7: a call served from an entry younger than cache_ttl sends no request,
\* leaves cache, consecutive_failures, rate_limited_until (and the pacing state)
\* as they were, and ends in the step it starts in, rate-limited or not.
C7_CacheHitTouchesNothing ==
    [][\A t \in Tasks :
          Starts(t) /\ calls'[t].key \in DOMAIN cache
                    /\ now - cache[calls'[t].key].timestamp < cache_ttl =>
              /\ calls'[t].pc = "done"
              /\ calls'[t].outcome = "cached"
              /\ svcVars' = svcVars
              /\ \A u \in Tasks : ~Issues(u)]_vars

C7_Witness ==
    \E t \in Tasks :
        /\ calls[t].pc = "done" /\ calls[t].outcome = "cached"
        /\ calls[t].result # <<>>
        /\ rate_limited_until > now
        /\ consecutive_failures > 0

----------------------------------------------------------------------------
(* Properties of the broadcast manager, checked under SpecBroadcast *)

Registered == Elements(active_connections)

\* C8: when broadcast returns it has not raised, every websocket it took from
\* the registry got the message unless its send raised, every websocket whose
\* send raised is out of the registry, and every other one is still in it
\* (unless its own endpoint ended meanwhile).
C8_BroadcastIsolatesFailures ==
    /\ bc.state = "returned" =>
          /\ bc.error = "none"
          /\ bc.delivered = bc.targets \ bc.raised
    /\ bc.raised \cap Registered = {}
    /\ bc.raised \cap DOMAIN connection_data = {}
    /\ \A c \in bc.targets \ bc.raised : handlers[c] = "open" => c \in Registered

C8_Witness ==
    /\ bc.state = "returned"
    /\ Cardinality(bc.targets) = 3
    /\ Cardinality(bc.raised) = 1
    /\ Cardinality(bc.delivered) = 2
    /\ Cardinality(Registered) = 2

----------------------------------------------------------------------------
(* Properties of the streaming loop, checked under SpecSched *)

\* C9: over a stretch of time in which no websocket is registered the loop
\* sends no upstream request.
C9_NoRequestWhileNobodyListens ==
    [][active_connections = <<>> /\ active_connections' = <<>> =>
          ~Issues(Scheduler)]_vars

\* C10: whenever the loop sends an upstream request, a websocket is registered.
C10_RequestsOnlyWithSubscribers ==
    [][Issues(Scheduler) => Len(active_connections) > 0]_vars

\* the service's health as the loop reads it: rate limited, or too many failures
HealthAsksBackoff ==
    \/ rate_limited_until > now
    \/ consecutive_failures > FailureThreshold

\* C11: a cycle that begins with a websocket registered while the service is
\* rate limited, or has failed more than FailureThreshold times in a row, goes
\* straight to its sleep: at most it reads the session from the cache, and it
\* starts no call that will send an upstream request.
C11_BackoffCycleSendsNothing ==
    [][spc = "top" /\ active_connections # <<>> /\ HealthAsksBackoff =>
          \/ spc' = "sleep"
          \/ spc' = "session" /\ calls'[Scheduler].pc = "done"]_vars

\* one of the loop's three fetches returns in this step
FetchReturns == spc = "fetch" /\ spc' # "fetch"

\* a broadcast starts sending in this step
Emits == bc.state # "sending" /\ bc'.state = "sending"

\* C12: when one of the three fetches of a cycle returns a non-empty list, the
\* loop broadcasts it to every registered websocket in one envelope of the
\* fetch's type, stamped with the current time; when the list is empty it
\* broadcasts nothing; and the loop sends no other envelope, so none of these
\* types ever carries an empty list.
C12_OneEnvelopePerNonEmptyResult ==
    [][/\ FetchReturns =>
            IF FetchResult # <<>> /\ active_connections # <<>>
            THEN /\ bc'.state = "sending"
                 /\ bc'.type = StageType(stage)
                 /\ bc'.data = FetchResult
                 /\ bc'.timestamp = now
                 /\ bc'.targets = Registered
                 /\ bc'.pending = Registered
            ELSE bc' = bc
       /\ Emits =>
            /\ FetchReturns
            /\ bc'.data # <<>>
            /\ bc'.type \in {"POSITION", "INTERVAL", "LOCATION"}]_vars

C12_Witness ==
    /\ spc = "gap" /\ stage = 2
    /\ active_connections # <<>>
    /\ bc.state = "returned" /\ bc.type = "POSITION"
    /\ bc.data # <<>> /\ bc.delivered # {}

\* C13: with every upstream request failing from the start on, the loop
\* broadcasts the entries left in the cache a bounded number of times only:
\* from some point on it starts no broadcast at all.  (Checked under SpecOutage.)
C13_OutageEndsInSilence == <>[][~Emits]_vars

C13_Witness ==
    /\ consecutive_failures > FailureThreshold
    /\ spc = "sleep" /\ swake = now + FailureSleep
    /\ active_connections # <<>>
    /\ bc.state = "returned" /\ bc.delivered # {}
    /\ bc.data = cache[CacheKey("position", NoDate)].data
    /\ now - cache[CacheKey("position", NoDate)].timestamp >= cache_ttl

----------------------------------------------------------------------------
(* Properties of get_live_timing_data, checked under SpecTiming *)

\* the aggregation returned entries for the roster
Aggregated == agg.pc = "done" /\ agg.result.error = None

\* the list the fetch of source number s returned
Got(s) == agg.got[s].list

\* the driver's record with the largest `field`, the first of them in the list
Newest(list, field, driver_number) ==
    LET own == {i \in DOMAIN list : list[i].driver_number = driver_number}
    IN  IF own = {} THEN None
        ELSE Some(list[CHOOSE i \in own : \A j \in own :
                          \/ list[j][field] < list[i][field]
                          \/ list[j][field] = list[i][field] /\ i <= j])

\* C14: each entry is built from the driver's position and interval records
\* with the largest date and the lap and stint records with the largest
\* lap_number and stint_number, wherever they stand in the lists; of several
\* records with that largest key, from the one that stands first.
C14_NewestRecordPerSource ==
    Aggregated =>
        \A i \in DOMAIN agg.result.driverTimings :
            LET t == agg.result.driverTimings[i]
                n == t.driver.driver_number
                p == Newest(Got(2), "date", n)
                l == Newest(Got(3), "lap_number", n)
                v == Newest(Got(4), "date", n)
                s == Newest(Got(5), "stint_number", n)
            IN  /\ p # None => t.position = p[1].position
                /\ l # None => /\ t.lastLap = l[1].lap_number
                               /\ t.lapTime = format_lap_time(l[1].lap_duration)
                /\ v # None => t.gap = format_gap(v[1].gap_to_leader)
                /\ s # None => t.tyreCompound = s[1].compound

C14_Witness ==
    /\ Aggregated
    /\ Len(Got(2)) = 2
    /\ Got(2)[1].driver_number = Got(2)[2].driver_number
    /\ Got(2)[1].date < Got(2)[2].date
    /\ \E i \in DOMAIN agg.result.driverTimings :
          /\ agg.result.driverTimings[i].driver.driver_number = Got(2)[1].driver_number
          /\ agg.result.driverTimings[i].position = Got(2)[2].position
          /\ agg.result.driverTimings[i].position # Got(2)[1].position

\* C15: tyreAge is lap_number - lap_start + tyre_age_at_start of the driver's
\* newest lap and stint, 0 when that is negative and when there is no lap or no
\* stint; it is never negative.
C15_TyreAgeClamped ==
    Aggregated =>
        \A i \in DOMAIN agg.result.driverTimings :
            LET t == agg.result.driverTimings[i]
                n == t.driver.driver_number
                l == Newest(Got(3), "lap_number", n)
                s == Newest(Got(5), "stint_number", n)
            IN  /\ t.tyreAge >= 0
                /\ t.tyreAge =
                      IF l = None \/ s = None THEN 0
                      ELSE Max(0, l[1].lap_number - s[1].lap_start
                                     + s[1].tyre_age_at_start)

\* C16: the entries come in ascending order of position, and no entry without
\* a position comes before an entry with one.
C16_SortedByPosition ==
    Aggregated =>
        \A i, j \in DOMAIN agg.result.driverTimings :
            i < j =>
                LET a == agg.result.driverTimings[i].position
                    b == agg.result.driverTimings[j].position
                IN  /\ a = None => b = None
                    /\ a # None /\ b # None => a[1] <= b[1]

\* C17: once get_drivers has returned the empty list the aggregation is over:
\* its result carries an error and no entry, no lastUpdate and no sessionKey,
\* and none of the other five fetches was started.
C17_NoDriversShortCircuits ==
    agg.got # <<>> /\ Got(1) = <<>> =>
        /\ agg.pc = "done"
        /\ Len(agg.got) = 1
        /\ agg.result.error # None
        /\ agg.result.driverTimings = <<>>
        /\ agg.result.lastUpdate = None
        /\ agg.result.sessionKey = None

C17_Witness ==
    /\ agg.pc = "done"
    /\ agg.feed.drivers # <<>>
    /\ agg.got[1].failed /\ Got(1) = <<>>
    /\ agg.result.error = Some("No drivers found")

\* every field of entry t that is derived from source number s has its default
Defaulted(t, s) ==
    CASE s = 2 -> t.position = None
      [] s = 3 -> /\ t.lapTime = Text("--:--.---", 0, 0)
                  /\ t.sector1 = Text("---.---", 0, 0)
                  /\ t.sector2 = Text("---.---", 0, 0)
                  /\ t.sector3 = Text("---.---", 0, 0)
                  /\ t.lastLap = 0
                  /\ t.tyreAge = 0
      [] s = 4 -> t.gap = Text("--", 0, 0) /\ t.interval = Text("--", 0, 0)
      [] s = 5 -> t.tyreCompound = "UNKNOWN" /\ t.tyreAge = 0
      [] OTHER -> t.pitStops = 0

\* the aggregation ended with no error and one entry for each driver of the roster
OneEntryPerDriver ==
    /\ agg.result.error = None
    /\ Len(agg.result.driverTimings) = Len(Got(1))
    /\ \A i \in DOMAIN Got(1) :
          \E j \in DOMAIN agg.result.driverTimings :
              agg.result.driverTimings[j].driver = Got(1)[i]

\* C18, as stated: with a roster, whichever of the other five fetches failed or
\* came back empty, the aggregation ends with no error and one entry per driver,
\* and the fields derived from a source that failed or was empty are defaults.
C18_FailedSourcesGiveDefaults ==
    agg.pc = "done" /\ Got(1) # <<>> =>
        /\ OneEntryPerDriver
        /\ \A s \in 2..6 : agg.got[s].failed \/ Got(s) = <<>> =>
              \A i \in DOMAIN agg.result.driverTimings :
                  Defaulted(agg.result.driverTimings[i], s)

\* C18, amended: ... and the fields derived from a source that handed back no
\* record (it was empty, or its fetch failed with nothing cached) are defaults.
\* A source whose fetch failed while the cache held an entry hands back that
\* entry, and the fields are derived from it.
C18_EmptySourcesGiveDefaults ==
    agg.pc = "done" /\ Got(1) # <<>> =>
        /\ OneEntryPerDriver
        /\ \A s \in 2..6 : Got(s) = <<>> =>
              \A i \in DOMAIN agg.result.driverTimings :
                  Defaulted(agg.result.driverTimings[i], s)

C18_Witness ==
    /\ agg.pc = "done" /\ Got(1) # <<>>
    /\ OneEntryPerDriver
    /\ agg.got[2].failed /\ Got(2) = <<>>
    /\ agg.got[3].failed /\ Got(3) # <<>>
    /\ ~agg.got[4].failed /\ Got(4) = <<>>
    /\ \A i \in DOMAIN agg.result.driverTimings :
          agg.result.driverTimings[i].position = None
    /\ \E i \in DOMAIN agg.result.driverTimings :
          agg.result.driverTimings[i].lastLap # 0

----------------------------------------------------------------------------
(* Properties of the subscriptions, checked under SpecBroadcast *)

\* the subscription list of a registered websocket
SubscriptionsOf(c) == connection_data[c].subscriptions

\* a filtered broadcast picks its websockets in this step
FilteredStarts == bc.state # "sending" /\ bc'.state = "sending" /\ bc'.topic # "none"

\* C19: a filtered broadcast of data type T sends to the registered websockets
\* whose subscription list is empty or holds T, and to no other: it picks
\* exactly those, a message goes to none but those, and when it returns each of
\* them has the message unless its send raised.
C19_FilteredBroadcastTargets ==
    [][/\ FilteredStarts =>
            bc'.targets = {c \in Registered :
                              SubscriptionsOf(c) = {} \/ bc'.topic \in SubscriptionsOf(c)}
       /\ bc'.topic # "none" =>
            /\ bc'.delivered \cup bc'.raised \cup bc'.pending = bc'.targets
            /\ bc'.state = "returned" => bc'.delivered = bc'.targets \ bc'.raised]_vars

C19_Witness ==
    /\ bc.state = "returned" /\ bc.topic = "POSITION"
    /\ Cardinality(Registered) = 3
    /\ Cardinality(bc.delivered) = 2
    /\ \E c \in bc.delivered : SubscriptionsOf(c) = {}
    /\ \E c \in bc.delivered : SubscriptionsOf(c) = {"POSITION", "INTERVAL"}
    /\ \E c \in Registered \ bc.targets : SubscriptionsOf(c) = {"INTERVAL"}

\* C20: update_subscription(c, types, action) adds exactly `types` to c's list
\* on "subscribe" and removes exactly `types` on "unsubscribe"; it leaves every
\* other websocket's list and the registry as they were, and changes nothing at
\* all when c is not registered.  A list changes in no other way than by one
\* whole update, so a filtered broadcast, which picks its websockets in one
\* step, sees the list before the update or after it; and an update does not
\* touch what a broadcast under way has picked.
C20_SubscriptionUpdateIsAtomic ==
    [][/\ connection_data' # connection_data \/ active_connections' # active_connections =>
            \A c \in Conns \ DOMAIN connection_data :
                \A types \in SUBSET Topics : \A action \in SubscriptionActions :
                    ~update_subscription(c, types, action)
       /\ connection_data' # connection_data
             /\ DOMAIN connection_data' = DOMAIN connection_data =>
            /\ \A c \in DOMAIN connection_data :
                  connection_data'[c] # connection_data[c] =>
                      /\ \A types \in SUBSET Topics : \A action \in SubscriptionActions :
                            update_subscription(c, types, action) =>
                                /\ active_connections' = active_connections
                                /\ \A x \in DOMAIN connection_data \ {c} :
                                      connection_data'[x] = connection_data[x]
                                /\ connection_data'[c].subscriptions =
                                      IF action = "subscribe"
                                      THEN SubscriptionsOf(c) \cup types
                                      ELSE SubscriptionsOf(c) \ types
                      /\ \E types \in SUBSET Topics : \E action \in SubscriptionActions :
                            update_subscription(c, types, action)
            /\ bc' = bc
            /\ ~FilteredStarts]_vars

C20_Witness ==
    /\ bc.state = "sending" /\ bc.topic = "POSITION"
    /\ \E c \in bc.pending :
          /\ c \in Registered
          /\ SubscriptionsOf(c) = {"INTERVAL"}
    /\ \E c \in Conns : handlers[c] = "ended"

----------------------------------------------------------------------------
(* Service health and the rate limit under overlapping calls, checked under Spec *)

\* the outcomes of a request that _make_request counts as a failure
FailureOutcomes == {"rate_limited", "status", "timeout", "exception"}

\* C29: consecutive_failures and rate_limited_until change only in the step in
\* which a request ends; a request that ends in a failure adds exactly one to
\* the counter as it is at that moment, a request that ends in a success sets
\* it to 0, and the counter is never negative.  So the counter equals the
\* number of requests that failed since the last one that succeeded, also
\* when the requests of several calls overlap.
C29_CounterCountsFailures ==
    [][/\ consecutive_failures' >= 0
       /\ (\A t \in Tasks : ~Ends(t)) =>
              /\ consecutive_failures' = consecutive_failures
              /\ rate_limited_until' = rate_limited_until
       /\ \A t \in Tasks :
              Ends(t) =>
                  /\ calls'[t].outcome \in FailureOutcomes \cup {"success"}
                  /\ calls'[t].outcome \in FailureOutcomes =>
                         consecutive_failures' = consecutive_failures + 1
                  /\ calls'[t].outcome = "success" => consecutive_failures' = 0]_vars

\* the requests of two calls, sent one tick apart, both failed: the counter is 2
C29_Witness ==
    /\ consecutive_failures = 2
    /\ \A t \in RouteTasks :
           /\ calls[t].pc = "done"
           /\ calls[t].outcome \in FailureOutcomes
    /\ last_request_time = 1
    /\ now = 1

\* C30: whenever a request is sent the service is not rate limited, also when
\* calls overlap.
C30_NoRequestWhileRateLimited ==
    [][\A t \in Tasks : Issues(t) => now >= rate_limited_until]_vars

----------------------------------------------------------------------------
(* The websocket endpoint and the registry, checked under SpecEndpoint *)

\* C25: a websocket enters the registry in the step in which its accept
\* succeeds and in no other; it leaves the registry only when its endpoint
\* ends or when a send of a broadcast to it raises; and however the endpoint
\* ends (the client went away, a message could not be handled, the initial
\* send, the heartbeat or the PONG raised, accept raised) the websocket is
\* not in the registry afterwards.
C25_RegisteredWhileEndpointRuns ==
    [][\A c \in SchedConns :
          /\ handlers'[c] \in {"new", "ended"} =>
                 /\ c \notin Elements(active_connections')
                 /\ c \notin DOMAIN connection_data'
          /\ handlers[c] = "new" /\ handlers'[c] = "initial" =>
                 c \in Elements(active_connections')
          /\ (c \notin Elements(active_connections)
                 /\ c \in Elements(active_connections')) =>
                 handlers[c] = "new" /\ handlers'[c] = "initial"
          /\ (c \in Elements(active_connections)
                 /\ c \notin Elements(active_connections')) =>
                 \/ handlers'[c] = "ended"
                 \/ c \in bc'.raised \ bc.raised]_vars

\* both endpoints have ended, one because a send of its own raised, one
\* because of a message it could not handle; both had received a broadcast
C25_Witness ==
    /\ handlers["c1"] = "ended"
    /\ endpoints["c1"].exit = "send failed"
    /\ handlers["c2"] = "ended"
    /\ endpoints["c2"].exit = "message error"
    /\ bc.delivered = {"c1", "c2"}
    /\ active_connections = <<>>
    /\ connection_data = <<>>

\* C26: a HEARTBEAT is pushed only by an endpoint whose wait for a message
\* has lasted the idle window, and pushing it leaves the endpoint in its
\* receive loop with a new wait and leaves the registry as it is.  The
\* receive loop ends only because the client went away, a message could not
\* be handled or a send raised: never because of the timeout alone.
C26_IdleTimeoutKeepsOpen ==
    [][\A c \in SchedConns :
          /\ (endpoints'[c] # endpoints[c] /\ endpoints'[c].sent = "HEARTBEAT") =>
                 /\ handlers[c] = "open"
                 /\ now >= endpoints[c].deadline
                 /\ handlers'[c] = "open"
                 /\ endpoints'[c].deadline = now + IdleWindow
                 /\ active_connections' = active_connections
                 /\ connection_data' = connection_data
          /\ handlers[c] = "open" /\ handlers'[c] = "ended" =>
                 endpoints'[c].exit \in {"disconnected", "message error", "send failed"}]_vars

\* the endpoint of c1 has just pushed a HEARTBEAT, c1 is registered, and the
\* other endpoint has ended meanwhile
C26_Witness ==
    /\ handlers["c1"] = "open"
    /\ endpoints["c1"].sent = "HEARTBEAT"
    /\ endpoints["c1"].deadline = now + IdleWindow
    /\ "c1" \in Elements(active_connections)
    /\ handlers["c2"] = "ended"

----------------------------------------------------------------------------
(* Formatting of durations, checked under SpecTiming *)

\* the number a sequence of digit characters stands for; -1 when a character
\* is not a digit
RECURSIVE Value(_)
Value(chars) ==
    IF chars = <<>> THEN 0
    ELSE LET ch == chars[Len(chars)]
             d == CASE ch = "0" -> 0 [] ch = "1" -> 1 [] ch = "2" -> 2 [] ch = "3" -> 3
                    [] ch = "4" -> 4 [] ch = "5" -> 5 [] ch = "6" -> 6 [] ch = "7" -> 7
                    [] ch = "8" -> 8 [] ch = "9" -> 9 [] OTHER -> -1
             rest == Value(SubSeq(chars, 1, Len(chars) - 1))
         IN  IF d < 0 \/ rest < 0 THEN -1 ELSE 10 * rest + d

\* chars reads M:SS.mmm for the duration d > 0 (in ms): minutes without
\* leading zeros, then two digits of seconds and three of milliseconds
ReadsAsClock(chars, d) ==
    LET n == Len(chars) IN
    /\ n >= 8
    /\ chars[n - 6] = ":"
    /\ chars[n - 3] = "."
    /\ n > 8 => chars[1] # "0"
    /\ Value(SubSeq(chars, 1, n - 7)) = d \div 60000
    /\ Value(SubSeq(chars, n - 5, n - 4)) = (d % 60000) \div 1000
    /\ Value(SubSeq(chars, n - 2, n)) = d % 1000

Unusable(d) == d = None \/ d[1] <= 0

\* C28: a missing, zero or negative duration is shown as the placeholder of
\* its field: --:--.--- for the lap time, ---.--- for a sector time, -- for
\* gap and interval.
C28_PlaceholderForUnusable ==
    Aggregated =>
        \A i \in DOMAIN agg.result.driverTimings :
            LET t == agg.result.driverTimings[i]
                l == Newest(Got(3), "lap_number", t.driver.driver_number)
                v == Newest(Got(4), "date", t.driver.driver_number)
            IN  /\ l # None =>
                       /\ Unusable(l[1].lap_duration) =>
                              Render(t.lapTime) = <<"-", "-", ":", "-", "-", ".", "-", "-", "-">>
                       /\ Unusable(l[1].duration_sector_1) =>
                              Render(t.sector1) = <<"-", "-", "-", ".", "-", "-", "-">>
                       /\ Unusable(l[1].duration_sector_3) =>
                              Render(t.sector3) = <<"-", "-", "-", ".", "-", "-", "-">>
                /\ v # None =>
                       /\ Unusable(v[1].gap_to_leader) => Render(t.gap) = <<"-", "-">>
                       /\ Unusable(v[1].interval) => Render(t.interval) = <<"-", "-">>

----------------------------------------------------------------------------
(* The loop goes on, checked under SpecOutage, where every fetch fails (a    *)
(* status, a 429, a timeout, an exception) and sends may raise               *)

\* C24: a sleep of the loop ends at the loop's top and nowhere else, and no
\* request is sent during it; at the top the loop looks at the registry, and
\* with nobody registered it sleeps again without a request.  No failing
\* fetch and no failing send ends the loop: it is always at one of its
\* stations, and it comes back to its top again and again.
C24_LoopGoesOn ==
    /\ [][/\ spc = "sleep" =>
                 /\ spc' \in {"sleep", "top"}
                 /\ calls'[Scheduler] = calls[Scheduler]
          /\ spc = "top" /\ active_connections = <<>> =>
                 /\ spc' \in {"top", "sleep"}
                 /\ calls'[Scheduler] = calls[Scheduler]
          /\ spc' \in {"top", "session", "fetch", "bcast", "gap", "sleep"}]_vars
    /\ []<>(spc = "top")

\* the loop is in the sleep that follows more than FailureThreshold failures
\* in a row, and a websocket is registered
C24_Witness ==
    /\ spc = "sleep"
    /\ swake = now + FailureSleep
    /\ consecutive_failures > FailureThreshold
    /\ active_connections # <<>>

----------------------------------------------------------------------------
(* Shutdown, checked under SpecShutdown *)

\* C23: wherever the streaming loop stands (in a sleep, in a fetch, in a
\* broadcast), cancelling it ends it: the permit of its request is back, no
\* send is pending, and from then on the loop sends no request and no
\* broadcast.  disconnect_all takes every websocket of its copy out of the
\* registry, whether close() returned or raised, and when shutdown_event has
\* returned nobody is registered.
C23_ShutdownStopsAndEmpties ==
    [][/\ shutdown.pc = "off" /\ shutdown'.pc # "off" =>
              /\ spc \in {"session", "fetch", "bcast", "gap", "sleep"}
              /\ spc' = "cancelled"
              /\ sem' = SemaphorePermits
              /\ calls'[Scheduler].pc = "idle"
              /\ bc'.pending = {}
       /\ spc = "cancelled" =>
              /\ spc' = "cancelled"
              /\ calls'[Scheduler] = calls[Scheduler]
              /\ ~Emits
              /\ bc' = bc
       /\ shutdown.pc = "closing" /\ shutdown' # shutdown =>
              LET c == Head(shutdown.copy) IN
              /\ c \notin Elements(active_connections')
              /\ c \notin DOMAIN connection_data'
              /\ c \in shutdown'.closed \cup shutdown'.raised
       /\ shutdown'.pc = "done" =>
              /\ active_connections' = <<>>
              /\ connection_data' = <<>>
              /\ shutdown'.copy = <<>>]_vars

\* shutdown_event has returned; close() returned for one websocket and raised
\* for another
C23_Witness ==
    /\ shutdown.pc = "done"
    /\ spc = "cancelled"
    /\ shutdown.closed # {}
    /\ shutdown.raised # {}
    /\ active_connections = <<>>

----------------------------------------------------------------------------
(* The semaphore, checked under SpecPool *)

\* the calls that hold a permit: in the pacing sleep or with a request in flight
Holders == {t \in DOMAIN calls : calls[t].pc \in {"pace_sleep", "inflight"}}

\* C22: at most SemaphorePermits requests are in flight, however many calls
\* run: every call that paces or has a request in flight holds one of the
\* permits, and the permits are never overdrawn.
C22_InFlightWithinPermits ==
    /\ Cardinality({t \in DOMAIN calls : calls[t].pc = "inflight"}) <= SemaphorePermits
    /\ sem >= 0
    /\ sem + Cardinality(Holders) = SemaphorePermits

\* five requests are in flight and a sixth call waits for a permit
C22_Witness ==
    /\ Cardinality({t \in DOMAIN calls : calls[t].pc = "inflight"}) = SemaphorePermits
    /\ \E t \in DOMAIN calls : calls[t].pc = "sem_wait"
    /\ sem = 0

----------------------------------------------------------------------------
(* A slow client, checked under SpecStream *)

\* the message of the broadcast under way reaches websocket c in this step
Delivers(c) == c \notin bc.delivered /\ c \in bc'.delivered

\* C21: while the send to another websocket does not end, websocket c1 gets
\* the message of the broadcast under way (its own send ends), and as long as
\* it stays registered it gets the messages of later broadcasts: again and
\* again a message is delivered to it.
C21_SlowSendDoesNotBlock ==
    /\ ("c1" \in bc.pending) ~> ("c1" \notin bc.pending)
    /\ <>[]("c1" \in Elements(active_connections)) => []<><<Delivers("c1")>>_vars

----------------------------------------------------------------------------
(* The pacing of requests, checked under SpecPool *)

\* C31: whenever a request is sent, the previous request (whose instant is
\* last_request_time) was sent at least request_delay earlier, however many
\* calls hold a permit of the semaphore.
C31_RequestsSpacedByDelay ==
    [][\A t \in DOMAIN calls : Issues(t) => now - last_request_time >= request_delay]_vars

----------------------------------------------------------------------------
(* Recovery, checked under SpecRecovery *)

\* the loop starts to broadcast a POSITION envelope in this step
EmitsPosition == Emits /\ bc'.type = "POSITION"

\* C32: once every upstream request succeeds with data, and as long as the
\* registry does not stay empty, the loop starts a POSITION broadcast again and
\* again, whatever the count of failures and the rate limit were when the
\* upstream recovered: no backoff lasts for ever.
C32_RecoversFromBackoff ==
    <>[](active_connections # <<>>) => []<><<EmitsPosition>>_vars

\* the loop is in the sleep that follows more than FailureThreshold failures:
\* the session came from the cache, so no success has reset the count yet
C32_Witness ==
    /\ spc = "sleep"
    /\ swake = now + FailureSleep
    /\ consecutive_failures > FailureThreshold
    /\ SessionsKey \in DOMAIN cache
    /\ active_connections # <<>>

----------------------------------------------------------------------------
(* The registry, checked under SpecRegistry *)

\* C33: with every websocket connected at most once, the websockets in
\* active_connections are always exactly the keys of connection_data, none of
\* them is in the list twice, and connection_count() is their number; a
\* disconnect leaves the websocket out of both, and a disconnect of a
\* websocket that is not registered (a second disconnect, one after a send
\* that raised, one of a websocket never accepted) changes nothing.
C33_RegistryConsistent ==
    /\ [](/\ Elements(active_connections) = DOMAIN connection_data
          /\ Cardinality(Elements(active_connections)) = Len(active_connections)
          /\ connection_count = Cardinality(DOMAIN connection_data))
    /\ [][\A c \in Conns :
            disconnect(c) =>
                /\ c \notin Elements(active_connections')
                /\ c \notin DOMAIN connection_data'
                /\ c \notin Elements(active_connections) =>
                       UNCHANGED <<active_connections, connection_data>>]_vars

\* disconnect_all is at its last close(): one websocket went with a send that
\* raised, one was closed, the one that is left has a subscription
C33_Witness ==
    /\ shutdown.pc = "closing"
    /\ Len(shutdown.copy) = 1
    /\ shutdown.closed # {}
    /\ bc.raised # {}
    /\ connection_count = 1
    /\ connection_data[active_connections[1]].subscriptions # {}

----------------------------------------------------------------------------
(* Unsubscribing, checked under SpecSubscription *)

\* C34: a filtered broadcast of data type T picks no websocket that has
\* unsubscribed from T and has not subscribed to T since, whatever else the
\* websocket subscribed to or unsubscribed from.
C34_UnsubscribedGetsNothing ==
    [][FilteredStarts => \A c \in bc'.targets : bc'.topic \notin unsubscribed[c]]_vars

====
